---- MODULE Spec2Model ----
(***************************************************************************)
(* Light parsing pipeline: FoodParser, SymptomParser and the               *)
(* LightParsePipeline orchestrator (src/light_parser/parsers).             *)
(*                                                                         *)
(* Strings are sequences of one-character strings, so that slicing,        *)
(* lower-casing, word boundaries and the 30-character windows are          *)
(* computed character by character as the regular expressions do.          *)
(* Offsets (start, end, pos) are Python's 0-based offsets: the character   *)
(* at offset k is text[k+1].                                               *)
(*                                                                         *)
(* Confidence values are kept in hundredths (0.95 is 95).  The code adds   *)
(* binary floats, whose sums differ from the decimal value by less than    *)
(* 1e-15 (0.75+0.15+0.05 is 0.9500000000000001); min(.., 1.0) and          *)
(* max(.., 0.9) are monotone, so no comparison against 0.0, 0.7, 0.9 or    *)
(* 1.0 made below changes with that rounding.                              *)
(***************************************************************************)
EXTENDS Integers, Sequences, FiniteSets, TLC

(***************************************************************************)
(* Characters and Python string primitives                                 *)
(***************************************************************************)
LowerLetters ==
    << "a","b","c","d","e","f","g","h","i","j","k","l","m",
       "n","o","p","q","r","s","t","u","v","w","x","y","z" >>

UpperLetters ==
    << "A","B","C","D","E","F","G","H","I","J","K","L","M",
       "N","O","P","Q","R","S","T","U","V","W","X","Y","Z" >>

DigitChars == << "0","1","2","3","4","5","6","7","8","9" >>

LowerSet == { LowerLetters[i] : i \in 1..26 }

UpperSet == { UpperLetters[i] : i \in 1..26 }

DigitSet == { DigitChars[i] : i \in 1..10 }

LowerMap == [ c \in UpperSet |-> LowerLetters[CHOOSE i \in 1..26 : UpperLetters[i] = c] ]

\* one character of str.lower() / of re.IGNORECASE folding
Lower(c) == IF c \in UpperSet THEN LowerMap[c] ELSE c

\* str.lower()
StrLower(s) == [ i \in 1..Len(s) |-> Lower(s[i]) ]

\* \w, \d, \s of the re module
WordChars == LowerSet \cup UpperSet \cup DigitSet \cup {"_"}

IsWordChar(c) == c \in WordChars

IsDigit(c) == c \in DigitSet

SpaceChars == {" ", "\t", "\n"}

IsSpace(c) == c \in SpaceChars

DigitValue(c) == (CHOOSE i \in 1..10 : DigitChars[i] = c) - 1

\* s[a:b] for 0 <= a <= b <= len(s)
Slice(s, a, b) == SubSeq(s, a + 1, b)

MinOf(S) == CHOOSE x \in S : \A y \in S : x <= y

MaxOf(S) == CHOOSE x \in S : \A y \in S : x >= y

\* \b at offset pos of s
WordAt(s, k) == k >= 1 /\ k <= Len(s) /\ IsWordChar(s[k])

Boundary(s, pos) == WordAt(s, pos) # WordAt(s, pos + 1)

\* the literal w matches s at offset pos, case-sensitively / under IGNORECASE
MatchesExact(s, pos, w) ==
    /\ pos + Len(w) <= Len(s)
    /\ \A i \in 1..Len(w) : s[pos + i] = w[i]

MatchesIgnoreCase(s, pos, w) ==
    /\ pos + Len(w) <= Len(s)
    /\ \A i \in 1..Len(w) : Lower(s[pos + i]) = Lower(w[i])

\* the `in` operator on two strings
Contains(s, w) == \E pos \in 0..(Len(s) - Len(w)) : MatchesExact(s, pos, w)

\* re.search(r'\b(w1|w2|..)\b', s) succeeds (case-sensitive)
SearchWord(s, words) ==
    \E pos \in 0..Len(s) : \E i \in 1..Len(words) :
        /\ Boundary(s, pos)
        /\ MatchesExact(s, pos, words[i])
        /\ Boundary(s, pos + Len(words[i]))

\* a match object: span and the two capture groups (<<>> when the group did not take part)
NoMatch == [ found |-> FALSE, start |-> 0, end |-> 0, group1 |-> <<>>, group2 |-> <<>> ]

Match(s, a, b, g1, g2) == [ found |-> TRUE, start |-> a, end |-> b, group1 |-> g1, group2 |-> g2 ]

(***************************************************************************)
(* Python values handed in as `text` or as a batch record                  *)
(***************************************************************************)
StrVal(s) == [ t |-> "str", s |-> s, n |-> 0 ]

None == [ t |-> "none", s |-> <<>>, n |-> 0 ]

IntVal(n) == [ t |-> "int", s |-> <<>>, n |-> n ]

\* a list of n elements
ListVal(n) == [ t |-> "list", s |-> <<>>, n |-> n ]

\* bool(v)
Truthy(v) ==
    CASE v.t = "str" -> v.s # <<>>
      [] v.t = "none" -> FALSE
      [] v.t = "int" -> v.n # 0
      [] v.t = "list" -> v.n # 0

\* a value that is absent (None) where a string is expected
Absent == <<>>

\* how a call ends: it returns ret, or it raises the exception exc with message msg
Return(ret) == [ raised |-> FALSE, exc |-> "", msg |-> "", ret |-> ret ]

Raise(exc, msg) == [ raised |-> TRUE, exc |-> exc, msg |-> msg, ret |-> <<>> ]

(***************************************************************************)
(* Lexicons                                                                *)
(***************************************************************************)
\* one iteration order of the set FOOD_LEXICON (a set of str iterates in hash order)
FoodIterA ==
    << <<"a","l","m","o","n","d">>, <<"a","l","m","o","n","d","s">>, <<"a","p","p","l","e">>,
       <<"b","a","n","a","n","a">>, <<"b","e","r","r","i","e","s">>, <<"b","i","r","y","a","n","i">>,
       <<"b","r","e","a","d">>, <<"b","u","r","g","e","r">>, <<"b","u","t","t","e","r">>,
       <<"c","h","a","i">>, <<"c","h","a","n","a">>, <<"c","h","a","w","a","l">>,
       <<"c","h","e","e","s","e">>, <<"c","h","i","c","k","e","n">>, <<"c","h","i","p","s">>,
       <<"c","h","o","c","o","l","a","t","e">>, <<"c","h","u","t","n","e","y">>, <<"c","o","f","f","e","e">>,
       <<"c","o","k","e">>, <<"c","o","o","k","i","e","s">>, <<"c","u","r","d">>,
       <<"c","u","r","r","y">>, <<"d","a","a","l">>, <<"d","a","h","i">>,
       <<"d","a","l">>, <<"d","o","s","a">>, <<"e","g","g">>,
       <<"e","g","g","s">>, <<"f","i","s","h">>, <<"g","h","e","e">>,
       <<"i","c","e"," ","c","r","e","a","m">>, <<"i","d","l","i">>, <<"j","u","i","c","e">>,
       <<"k","h","i","c","h","d","i">>, <<"m","i","l","k">>, <<"m","o","o","n","g">>,
       <<"n","a","a","n">>, <<"n","o","o","d","l","e","s">>, <<"n","u","t","s">>,
       <<"o","a","t","s">>, <<"p","a","n","e","e","r">>, <<"p","a","r","a","t","h","a">>,
       <<"p","a","s","t","a">>, <<"p","i","z","z","a">>, <<"p","o","h","a">>,
       <<"p","o","r","r","i","d","g","e">>, <<"p","r","o","t","e","i","n"," ","s","h","a","k","e">>, <<"r","a","j","m","a">>,
       <<"r","i","c","e">>, <<"r","o","t","i">>, <<"s","a","l","a","d">>,
       <<"s","a","m","b","a","r">>, <<"s","a","n","d","w","i","c","h">>, <<"s","h","a","k","e">>,
       <<"s","o","u","p">>, <<"s","t","e","w">>, <<"s","u","s","h","i">>,
       <<"t","e","a">>, <<"t","o","a","s","t">>, <<"t","o","f","u">>,
       <<"u","p","m","a">>, <<"v","a","d","a">>, <<"v","e","g","e","t","a","b","l","e","s">>,
       <<"w","r","a","p">>, <<"y","o","g","u","r","t">> >>

\* one iteration order of the set SYMPTOM_LEXICON
SymptomIterA ==
    << <<"a","c","h","e">>, <<"a","c","h","i","n","g">>,
       <<"a","c","n","e">>, <<"a","n","x","i","e","t","y">>,
       <<"a","n","x","i","o","u","s">>, <<"b","a","c","k"," ","p","a","i","n">>,
       <<"b","l","e","e","d","i","n","g">>, <<"b","l","o","a","t","e","d">>,
       <<"b","l","o","a","t","i","n","g">>, <<"b","r","e","a","k","o","u","t">>,
       <<"b","r","e","a","s","t"," ","p","a","i","n">>, <<"c","h","i","l","l","s">>,
       <<"c","o","n","g","e","s","t","i","o","n">>, <<"c","o","n","s","t","i","p","a","t","i","o","n">>,
       <<"c","o","u","g","h">>, <<"c","r","a","m","p","i","n","g">>,
       <<"c","r","a","m","p","s">>, <<"d","i","a","r","r","h","e","a">>,
       <<"d","i","s","c","h","a","r","g","e">>, <<"d","i","s","c","o","m","f","o","r","t">>,
       <<"d","i","z","z","i","n","e","s","s">>, <<"d","i","z","z","y">>,
       <<"e","x","h","a","u","s","t","e","d">>, <<"e","x","h","a","u","s","t","i","o","n">>,
       <<"f","a","t","i","g","u","e">>, <<"f","e","v","e","r">>,
       <<"g","a","s">>, <<"g","a","s","s","y">>,
       <<"h","e","a","d","a","c","h","e">>, <<"h","e","a","r","t"," ","r","a","c","i","n","g">>,
       <<"h","o","t"," ","f","l","a","s","h">>, <<"h","o","t"," ","f","l","a","s","h","e","s">>,
       <<"j","i","t","t","e","r","y">>, <<"j","o","i","n","t"," ","p","a","i","n">>,
       <<"l","i","g","h","t","h","e","a","d","e","d">>, <<"l","o","w"," ","e","n","e","r","g","y">>,
       <<"l","o","w","e","r"," ","b","a","c","k"," ","p","a","i","n">>, <<"m","i","g","r","a","i","n","e">>,
       <<"n","a","u","s","e","a">>, <<"n","a","u","s","e","o","u","s">>,
       <<"p","a","i","n">>, <<"p","a","l","p","i","t","a","t","i","o","n","s">>,
       <<"p","e","l","v","i","c"," ","p","a","i","n">>, <<"r","a","s","h">>,
       <<"s","l","e","e","p","i","n","e","s","s">>, <<"s","l","e","e","p","y">>,
       <<"s","o","r","e">>, <<"s","o","r","e"," ","t","h","r","o","a","t">>,
       <<"s","o","r","e","n","e","s","s">>, <<"s","p","o","t","t","i","n","g">>,
       <<"s","t","o","m","a","c","h"," ","a","c","h","e">>, <<"s","t","o","m","a","c","h"," ","p","a","i","n">>,
       <<"s","t","r","e","s","s">>, <<"s","t","r","e","s","s","e","d">>,
       <<"s","w","e","a","t","i","n","g">>, <<"t","e","n","d","e","r","n","e","s","s">>,
       <<"t","i","r","e","d">>, <<"w","a","r","m">>,
       <<"w","e","a","k","n","e","s","s">> >>

FOOD_LEXICON == { FoodIterA[i] : i \in 1..Len(FoodIterA) }

SYMPTOM_LEXICON == { SymptomIterA[i] : i \in 1..Len(SymptomIterA) }

Reverse(s) == [ i \in 1..Len(s) |-> s[Len(s) + 1 - i] ]

\* The iteration order of a set of str depends on the per-process hash seed:
\* the orders a pipeline may be constructed under (two opposite ones).
HashSeeds == {1, 2}

FoodIter(seed) == IF seed = 1 THEN FoodIterA ELSE Reverse(FoodIterA)

SymptomIter(seed) == IF seed = 1 THEN SymptomIterA ELSE Reverse(SymptomIterA)

\* sorted(terms, key=len, reverse=True): stable, so terms of equal length keep
\* their iteration order
RECURSIVE SortedFrom(_, _)
SortedFrom(terms, L) ==
    IF L = 0 THEN <<>>
    ELSE SelectSeq(terms, LAMBDA t : Len(t) = L) \o SortedFrom(terms, L - 1)

SortedByLenDesc(terms) ==
    SortedFrom(terms, MaxOf({ Len(terms[i]) : i \in 1..Len(terms) }))

(***************************************************************************)
(* FoodParser                                                              *)
(***************************************************************************)
\* MEAL_KEYWORDS, in dict insertion order
MEAL_KEYWORDS ==
    << [ meal_type |-> "breakfast", keywords |-> << <<"b","r","e","a","k","f","a","s","t">> >> ],
       [ meal_type |-> "lunch",     keywords |-> << <<"l","u","n","c","h">>,
                                                    <<"l","u","n","c","h"," ","m","e","i","n">> >> ],
       [ meal_type |-> "dinner",    keywords |-> << <<"d","i","n","n","e","r">> >> ],
       [ meal_type |-> "snack",     keywords |-> << <<"s","n","a","c","k">> >> ] >>

SKIP_INDICATORS ==
    << <<"s","k","i","p">>, <<"s","k","i","p","p","e","d">>,
       <<"s","k","i","p"," ","k","i","y","a">> >>

\* the unit alternation of QUANTITY_PATTERN, in the order it is written
QUANTITY_UNITS ==
    << <<"b","o","w","l">>, <<"c","u","p">>, <<"p","i","e","c","e">>,
       <<"p","i","e","c","e","s">>, <<"p","l","a","t","e">>, <<"p","l","a","t","e","s">>,
       <<"s","l","i","c","e">>, <<"s","l","i","c","e","s">>, <<"s","p","o","o","n">>,
       <<"s","p","o","o","n","s">>, <<"g","l","a","s","s">>, <<"g","l","a","s","s","e","s">>,
       <<"g">>, <<"k","g">>, <<"m","l">>, <<"l">> >>

W_half == <<"h","a","l","f">>

W_quarter == <<"q","u","a","r","t","e","r">>

W_skipped == <<"s","k","i","p","p","e","d">>

\* the alternation joined in the iteration order of the set, without sorted()
FoodBuildPatternsUnsorted(iter) == iter

\* self.food_pattern: the lexicon terms in the order of the compiled
\* alternation; FoodPatternMatch supplies the \b( .. )(?:s)?\b around it
FoodParser_build_food_patterns(iter) == SortedByLenDesc(iter)

\* end offset of \b(term)(?:s)?\b when `term` is the alternative taken at pos, -1 when
\* that alternative fails: the optional s is greedy and given back if \b then fails
FoodTermEnd(text, pos, term) ==
    IF ~MatchesIgnoreCase(text, pos, term) THEN -1
    ELSE LET e == pos + Len(term) IN
         IF e < Len(text) /\ Lower(text[e + 1]) = "s" /\ Boundary(text, e + 1) THEN e + 1
         ELSE IF Boundary(text, e) THEN e
         ELSE -1

\* the match object when `term` is the alternative taken at pos
FoodMatchOf(text, pos, term) ==
    Match(text, pos, FoodTermEnd(text, pos, term), Slice(text, pos, pos + Len(term)), <<>>)

\* food_pattern.match at offset pos: the first alternative, in pattern order, that succeeds
FoodPatternMatch(pattern, text, pos) ==
    IF ~Boundary(text, pos) THEN NoMatch
    ELSE LET hits == { i \in 1..Len(pattern) : FoodTermEnd(text, pos, pattern[i]) # -1 } IN
         IF hits = {} THEN NoMatch
         ELSE FoodMatchOf(text, pos, pattern[MinOf(hits)])

\* food_pattern.finditer(text) from offset pos: leftmost, non-overlapping matches
RECURSIVE FoodFinditer(_, _, _)
FoodFinditer(pattern, text, pos) ==
    IF pos >= Len(text) THEN <<>>
    ELSE LET m == FoodPatternMatch(pattern, text, pos) IN
         IF m.found THEN <<m>> \o FoodFinditer(pattern, text, m.end)
         ELSE FoodFinditer(pattern, text, pos + 1)

\* number of consecutive \d / \s characters of s from offset pos on
RECURSIVE DigitRun(_, _)
DigitRun(s, pos) ==
    IF pos < Len(s) /\ IsDigit(s[pos + 1]) THEN 1 + DigitRun(s, pos + 1) ELSE 0

RECURSIVE SpaceRun(_, _)
SpaceRun(s, pos) ==
    IF pos < Len(s) /\ IsSpace(s[pos + 1]) THEN 1 + SpaceRun(s, pos + 1) ELSE 0

\* QUANTITY_PATTERN, group 1 (\d+(?:\.\d+)?|half|quarter) at offset pos: the end
\* offsets the regex engine tries, in its backtracking order (greedy first)
QuantityGroup1Ends(w, pos) ==
    LET n == DigitRun(w, pos) IN
    IF n > 0 THEN
        LET m == IF pos + n < Len(w) /\ w[pos + n + 1] = "." THEN DigitRun(w, pos + n + 1) ELSE 0 IN
        [ j \in 1..m |-> pos + n + 1 + (m - j + 1) ] \o [ j \in 1..n |-> pos + n - j + 1 ]
    ELSE IF MatchesIgnoreCase(w, pos, W_half) THEN << pos + Len(W_half) >>
    ELSE IF MatchesIgnoreCase(w, pos, W_quarter) THEN << pos + Len(W_quarter) >>
    ELSE <<>>

\* QUANTITY_PATTERN after group 1: \s*(?:(bowl|cup|..))?\b from offset e.
\* \s* is greedy, then the units are tried in order, then no unit. An attempt
\* is a pair <<sp, u>>: sp white-space characters taken, then unit u (0: none).
QuantityTailOk(w, e, sp, u) ==
    IF u = 0 THEN Boundary(w, e + sp)
    ELSE /\ MatchesIgnoreCase(w, e + sp, QUANTITY_UNITS[u])
         /\ Boundary(w, e + sp + Len(QUANTITY_UNITS[u]))

\* the place of attempt <<sp, u>> in the order the engine makes the attempts,
\* k being the length of the white-space run
QuantityTailRank(k, sp, u) ==
    (k - sp) * (Len(QUANTITY_UNITS) + 1) + (IF u = 0 THEN Len(QUANTITY_UNITS) ELSE u - 1)

\* the tail matched by attempt c
QuantityTailTaken(w, e, c) ==
    LET ulen == IF c[2] = 0 THEN 0 ELSE Len(QUANTITY_UNITS[c[2]])
    IN  [ ok |-> TRUE, end |-> e + c[1] + ulen,
          unit |-> Slice(w, e + c[1], e + c[1] + ulen) ]

\* the first of the attempts `good` that succeed
QuantityTailFirst(w, e, k, good) ==
    IF good = {} THEN [ ok |-> FALSE, end |-> 0, unit |-> <<>> ]
    ELSE QuantityTailTaken(w, e,
             CHOOSE c \in good : \A d \in good :
                 QuantityTailRank(k, c[1], c[2]) <= QuantityTailRank(k, d[1], d[2]))

QuantityTail(w, e) ==
    QuantityTailFirst(w, e, SpaceRun(w, e),
        { c \in (0..SpaceRun(w, e)) \X (0..Len(QUANTITY_UNITS)) :
            QuantityTailOk(w, e, c[1], c[2]) })

\* the engine backtracks over the ends of group 1, from ends[i] on, until the
\* tail matches
RECURSIVE QuantityBacktrack(_, _, _, _)
QuantityBacktrack(w, pos, ends, i) ==
    IF i > Len(ends) THEN NoMatch
    ELSE IF QuantityTail(w, ends[i]).ok
         THEN Match(w, pos, QuantityTail(w, ends[i]).end, Slice(w, pos, ends[i]),
                    QuantityTail(w, ends[i]).unit)
    ELSE QuantityBacktrack(w, pos, ends, i + 1)

\* QUANTITY_PATTERN.match at offset pos
QuantityPatternMatch(w, pos) ==
    IF ~Boundary(w, pos) THEN NoMatch
    ELSE QuantityBacktrack(w, pos, QuantityGroup1Ends(w, pos), 1)

\* QUANTITY_PATTERN.finditer(w) from offset pos
RECURSIVE QuantityFinditer(_, _)
QuantityFinditer(w, pos) ==
    IF pos >= Len(w) THEN <<>>
    ELSE LET m == QuantityPatternMatch(w, pos) IN
         IF m.found THEN <<m>> \o QuantityFinditer(w, m.end)
         ELSE QuantityFinditer(w, pos + 1)

\* A float that is a decimal fraction: num/den with den a power of ten and no
\* trailing zero kept (2, 2.0 and 2.00 are the same float)
NoQuantity == [ present |-> FALSE, num |-> 0, den |-> 1 ]

RECURSIVE Decimal(_, _)
Decimal(num, den) ==
    IF den > 1 /\ num % 10 = 0 THEN Decimal(num \div 10, den \div 10)
    ELSE [ present |-> TRUE, num |-> num, den |-> den ]

RECURSIVE DigitsValue(_)
DigitsValue(s) ==
    IF s = <<>> THEN 0
    ELSE 10 * DigitsValue(SubSeq(s, 1, Len(s) - 1)) + DigitValue(s[Len(s)])

RECURSIVE PowerOfTen(_)
PowerOfTen(n) == IF n = 0 THEN 1 ELSE 10 * PowerOfTen(n - 1)

\* str.strip()
RECURSIVE Strip(_)
Strip(s) ==
    IF s # <<>> /\ IsSpace(s[1]) THEN Strip(Tail(s))
    ELSE IF s # <<>> /\ IsSpace(s[Len(s)]) THEN Strip(SubSeq(s, 1, Len(s) - 1))
    ELSE s

\* float(s) for the strings group 1 can hold: digits, or digits.digits; any other
\* string is the ValueError branch (NoQuantity)
ParseFloat(s) ==
    LET n == DigitRun(s, 0) IN
    IF n = 0 THEN NoQuantity
    ELSE IF n = Len(s) THEN Decimal(DigitsValue(s), 1)
    ELSE IF s[n + 1] = "." /\ n + 1 < Len(s) /\ DigitRun(s, n + 1) = Len(s) - n - 1
         THEN Decimal(DigitsValue(SubSeq(s, 1, n)) * PowerOfTen(Len(s) - n - 1)
                        + DigitsValue(SubSeq(s, n + 2, Len(s))),
                      PowerOfTen(Len(s) - n - 1))
    ELSE NoQuantity

FoodParser_normalize_quantity(quantity_str) ==
    LET s == Strip(StrLower(quantity_str)) IN
    IF s = W_half THEN Decimal(5, 10)
    ELSE IF s = W_quarter THEN Decimal(25, 100)
    ELSE ParseFloat(s)

\* the at-most-30 characters before the match
FoodWindow(text, food_start) ==
    Slice(text, IF food_start - 30 > 0 THEN food_start - 30 ELSE 0, food_start)

\* the quantity and unit of the quantity match `closest`
QuantityOf(closest) ==
    [ quantity |-> FoodParser_normalize_quantity(closest.group1),
      unit |-> IF closest.group2 # <<>> THEN StrLower(closest.group2) ELSE Absent ]

\* the last of the matches, if any
QuantityOfLast(matches) ==
    IF matches # <<>> THEN QuantityOf(matches[Len(matches)])
    ELSE [ quantity |-> NoQuantity, unit |-> Absent ]

\* the quantity taken from the first match of the window instead of the last
FoodExtractQuantityFirstMatch(text, food_start, food_end) ==
    LET matches == QuantityFinditer(FoodWindow(text, food_start), 0)
    IN  IF matches # <<>> THEN QuantityOf(matches[1])
        ELSE [ quantity |-> NoQuantity, unit |-> Absent ]

FoodParser_extract_quantity_near(text, food_start, food_end) ==
    QuantityOfLast(QuantityFinditer(FoodWindow(text, food_start), 0))

\* plural_map of _normalize_food_name
PluralMap(name) ==
    CASE name = <<"e","g","g","s">> -> <<"e","g","g">>
      [] name = <<"a","l","m","o","n","d","s">> -> <<"a","l","m","o","n","d">>
      [] name = <<"c","o","o","k","i","e","s">> -> <<"c","o","o","k","i","e">>
      [] name = <<"p","i","e","c","e","s">> -> <<"p","i","e","c","e">>
      [] name = <<"s","l","i","c","e","s">> -> <<"s","l","i","c","e">>
      [] name = <<"b","e","r","r","i","e","s">> -> <<"b","e","r","r","y">>
      [] OTHER -> <<>>

\* the name lower-cased and stripped, with the trailing-'s' rule but without
\* plural_map
FoodNormalizeNoPluralMap(food_name) ==
    LET name == Strip(StrLower(food_name)) IN
    IF /\ name # <<>>
       /\ name[Len(name)] = "s"
       /\ Len(name) > 3
       /\ SubSeq(name, 1, Len(name) - 1) \in FOOD_LEXICON
    THEN SubSeq(name, 1, Len(name) - 1)
    ELSE name

FoodParser_normalize_food_name(food_name) ==
    LET name == Strip(StrLower(food_name)) IN
    IF PluralMap(name) # <<>> THEN PluralMap(name)
    ELSE IF /\ name # <<>>
            /\ name[Len(name)] = "s"
            /\ Len(name) > 3
            /\ SubSeq(name, 1, Len(name) - 1) \in FOOD_LEXICON
         THEN SubSeq(name, 1, Len(name) - 1)
    ELSE name

common_foods ==
    { <<"r","i","c","e">>, <<"e","g","g">>, <<"b","r","e","a","d">>,
      <<"c","h","i","c","k","e","n">>, <<"d","a","l">>, <<"m","i","l","k">>,
      <<"t","o","a","s","t">> }

\* confidence in hundredths
FoodParser_calculate_confidence(food_name, quantity_info, meal_context) ==
    LET c0 == 70
        c1 == IF quantity_info.quantity.present THEN c0 + 15 ELSE c0
        c2 == IF meal_context # "unknown" THEN c1 + 10 ELSE c1
        c3 == IF StrLower(food_name) \in common_foods THEN c2 + 5 ELSE c2
    IN  IF c3 < 100 THEN c3 ELSE 100

FoodMention(name, quantity, unit, meal, confidence) ==
    [ name |-> name, quantity |-> quantity, unit |-> unit, meal |-> meal,
      confidence |-> confidence ]

\* the meal types whose keyword occurs in text_lower, as indices of MEAL_KEYWORDS
MealKeywordHits(text_lower) ==
    { j \in 1..Len(MEAL_KEYWORDS) :
        \E k \in 1..Len(MEAL_KEYWORDS[j].keywords) :
            Contains(text_lower, MEAL_KEYWORDS[j].keywords[k]) }

\* returns [found, mention]; found = FALSE is the None result
FoodParser_detect_skipped_meal(text) ==
    LET text_lower == StrLower(text)
        nothing == FoodMention(<<>>, NoQuantity, Absent, "unknown", 0)
    IN  IF \E i \in 1..Len(SKIP_INDICATORS) : Contains(text_lower, SKIP_INDICATORS[i]) THEN
            LET hits == MealKeywordHits(text_lower) IN
            IF hits # {} THEN
                [ found |-> TRUE,
                  mention |-> FoodMention(W_skipped, NoQuantity, Absent,
                                          MEAL_KEYWORDS[MinOf(hits)].meal_type, 95) ]
            ELSE [ found |-> TRUE,
                   mention |-> FoodMention(W_skipped, NoQuantity, Absent, "unknown", 90) ]
        ELSE [ found |-> FALSE, mention |-> nothing ]

\* time_patterns of _detect_meal_context, in dict order; matched case-sensitively
FoodTimePatterns ==
    << [ meal_type |-> "breakfast",
         words |-> << <<"m","o","r","n","i","n","g">>, <<"A","M">>, <<"a","m">>,
                      <<"s","u","b","a","h">> >> ],
       [ meal_type |-> "lunch",
         words |-> << <<"n","o","o","n">>, <<"a","f","t","e","r","n","o","o","n">>,
                      <<"l","u","n","c","h">>, <<"d","o","p","a","h","a","r">> >> ],
       [ meal_type |-> "dinner",
         words |-> << <<"e","v","e","n","i","n","g">>, <<"n","i","g","h","t">>,
                      <<"d","i","n","n","e","r">>, <<"r","a","a","t">>, <<"P","M">>,
                      <<"p","m">> >> ] >>

\* the meal with the time-of-day patterns consulted before the meal keywords
FoodDetectMealContextTimeFirst(text) ==
    LET text_lower == StrLower(text)
        hits == MealKeywordHits(text_lower)
        thits == { j \in 1..Len(FoodTimePatterns) : SearchWord(text, FoodTimePatterns[j].words) }
    IN  IF thits # {} THEN FoodTimePatterns[MinOf(thits)].meal_type
        ELSE IF hits # {} THEN MEAL_KEYWORDS[MinOf(hits)].meal_type
        ELSE "unknown"

FoodParser_detect_meal_context(text) ==
    LET text_lower == StrLower(text)
        hits == MealKeywordHits(text_lower)
        thits == { j \in 1..Len(FoodTimePatterns) : SearchWord(text, FoodTimePatterns[j].words) }
    IN  IF hits # {} THEN MEAL_KEYWORDS[MinOf(hits)].meal_type
        ELSE IF thits # {} THEN FoodTimePatterns[MinOf(thits)].meal_type
        ELSE "unknown"

\* the food_item built from the matched name, the quantity found and the meal
FoodItemOf(food_name, quantity_info, meal_context) ==
    FoodMention(FoodParser_normalize_food_name(food_name),
                quantity_info.quantity, quantity_info.unit, meal_context,
                FoodParser_calculate_confidence(food_name, quantity_info, meal_context))

\* the body of the for loop of parse for one match
FoodItem(text, match, meal_context) ==
    FoodItemOf(StrLower(match.group1),
               FoodParser_extract_quantity_near(text, match.start, match.end),
               meal_context)

\* the for loop of parse over matches[i..], with seen_positions and foods so far
RECURSIVE FoodLoop(_, _, _, _, _, _)
FoodLoop(text, matches, meal_context, i, seen_positions, foods) ==
    IF i > Len(matches) THEN foods
    ELSE IF matches[i].start \in seen_positions
         THEN FoodLoop(text, matches, meal_context, i + 1, seen_positions, foods)
    ELSE FoodLoop(text, matches, meal_context, i + 1,
                  seen_positions \cup { matches[i].start },
                  Append(foods, FoodItem(text, matches[i], meal_context)))

\* parse that records the skipped meal and goes on to the lexicon matches
FoodParseStrNoShortCircuit(pattern, s) ==
    LET skipped_meal == FoodParser_detect_skipped_meal(s)
        first == IF skipped_meal.found THEN << skipped_meal.mention >> ELSE <<>>
    IN  Return(first \o FoodLoop(s, FoodFinditer(pattern, s, 0),
                                 FoodParser_detect_meal_context(s), 1, {}, <<>>))

\* parse after its guard, on the string s: skip check, meal context, lexicon matches
FoodParseStr(pattern, s) ==
    LET skipped_meal == FoodParser_detect_skipped_meal(s) IN
    IF skipped_meal.found THEN Return(<< skipped_meal.mention >>)
    ELSE Return(FoodLoop(s, FoodFinditer(pattern, s, 0),
                         FoodParser_detect_meal_context(s), 1, {}, <<>>))

\* parse with the guard `if not text` alone: a non-string that is not falsy
\* reaches text.lower()
FoodParserParseNoTypeCheck(pattern, text) ==
    IF ~Truthy(text) THEN Return(<<>>)
    ELSE IF text.t # "str" THEN Raise("AttributeError", "object has no attribute 'lower'")
    ELSE FoodParseStr(pattern, text.s)

\* FoodParser.parse(text) of a parser whose compiled pattern is `pattern`
FoodParser_parse(pattern, text) ==
    IF ~Truthy(text) \/ text.t # "str" THEN Return(<<>>)
    ELSE FoodParseStr(pattern, text.s)

(***************************************************************************)
(* SymptomParser                                                           *)
(***************************************************************************)
NEGATION_WORDS ==
    << <<"n","o">>, <<"n","o","t">>, <<"w","i","t","h","o","u","t">>, <<"z","e","r","o">>,
       <<"n","e","v","e","r">>, <<"n","o","n","e">>, <<"n","a","h","i">>,
       <<"n","a","h","i","n">> >>

\* the word alternation of SEVERITY_PATTERN, in the order it is written
SEVERITY_WORDS ==
    << <<"m","i","l","d">>, <<"l","i","g","h","t">>, <<"s","l","i","g","h","t">>,
       <<"m","o","d","e","r","a","t","e">>, <<"s","e","v","e","r","e">>,
       <<"e","x","t","r","e","m","e">>, <<"i","n","t","e","n","s","e">>,
       <<"b","a","h","u","t">> >>

W_bahut == <<"b","a","h","u","t">>

W_severe == <<"s","e","v","e","r","e">>

W_after == <<"a","f","t","e","r">>

\* an absent time_hint
NoTimeHint == "None"

\* TIME_HINTS, in dict order; the first four are \b(w1|w2|..)\b, matched case-sensitively
TIME_HINTS ==
    << [ time_type |-> "morning",
         words |-> << <<"m","o","r","n","i","n","g">>, <<"s","u","b","a","h">>, <<"A","M">>,
                      <<"a","m">> >> ],
       [ time_type |-> "afternoon",
         words |-> << <<"a","f","t","e","r","n","o","o","n">>, <<"d","o","p","a","h","a","r">>,
                      <<"n","o","o","n">> >> ],
       [ time_type |-> "evening",
         words |-> << <<"e","v","e","n","i","n","g">>, <<"s","h","a","a","m">> >> ],
       [ time_type |-> "night",
         words |-> << <<"n","i","g","h","t">>, <<"r","a","a","t">>, <<"P","M">>, <<"p","m">> >> ] >>

\* the words of the after_meal pattern \b(after\s+(?:eating|lunch|dinner|breakfast|meal))\b
AFTER_MEAL_WORDS ==
    << <<"e","a","t","i","n","g">>, <<"l","u","n","c","h">>, <<"d","i","n","n","e","r">>,
       <<"b","r","e","a","k","f","a","s","t">>, <<"m","e","a","l">> >>

\* the alternation in the iteration order of the lexicon, not sorted by length
SymptomBuildPatternsUnsorted(iter) == iter

\* self.symptom_pattern: the lexicon terms in the order of the compiled
\* alternation; SymptomPatternMatch supplies the \b( .. )\b around it
SymptomParser_build_symptom_patterns(iter) == SortedByLenDesc(iter)

\* symptom_pattern.match at offset pos: the first alternative, in pattern order, that succeeds
SymptomPatternMatch(pattern, text, pos) ==
    IF ~Boundary(text, pos) THEN NoMatch
    ELSE LET hits == { i \in 1..Len(pattern) :
                         /\ MatchesIgnoreCase(text, pos, pattern[i])
                         /\ Boundary(text, pos + Len(pattern[i])) }
         IN  IF hits = {} THEN NoMatch
             ELSE LET i == MinOf(hits) IN
                  Match(text, pos, pos + Len(pattern[i]),
                        Slice(text, pos, pos + Len(pattern[i])), <<>>)

\* a scan that looks for a match at every position of the text, also inside
\* the span of the match before: matches may overlap
RECURSIVE SymptomFinditerOverlapping(_, _, _)
SymptomFinditerOverlapping(pattern, text, pos) ==
    IF pos >= Len(text) THEN <<>>
    ELSE LET m == SymptomPatternMatch(pattern, text, pos) IN
         IF m.found THEN <<m>> \o SymptomFinditerOverlapping(pattern, text, pos + 1)
         ELSE SymptomFinditerOverlapping(pattern, text, pos + 1)

\* symptom_pattern.finditer(text) from offset pos
RECURSIVE SymptomFinditer(_, _, _)
SymptomFinditer(pattern, text, pos) ==
    IF pos >= Len(text) THEN <<>>
    ELSE LET m == SymptomPatternMatch(pattern, text, pos) IN
         IF m.found THEN <<m>> \o SymptomFinditer(pattern, text, m.end)
         ELSE SymptomFinditer(pattern, text, pos + 1)

\* the at-most-30 characters before the match, lower-cased
NegationWindow(text, symptom_start) ==
    StrLower(Slice(text, IF symptom_start - 30 > 0 THEN symptom_start - 30 ELSE 0,
                   symptom_start))

SymptomParser_check_negation(text, symptom_start) ==
    LET preceding_text == NegationWindow(text, symptom_start) IN
    \E i \in 1..Len(NEGATION_WORDS) : SearchWord(preceding_text, << NEGATION_WORDS[i] >>)

\* SEVERITY_PATTERN.match at offset pos: (\d+)\s*/\s*10 first, then the words
SeverityPatternMatch(w, pos) ==
    IF ~Boundary(w, pos) THEN NoMatch
    ELSE LET n == DigitRun(w, pos)
             a == pos + n + SpaceRun(w, pos + n)
             b == a + 1 + SpaceRun(w, a + 1)
             numeric == /\ n > 0
                        /\ a < Len(w) /\ w[a + 1] = "/"
                        /\ MatchesExact(w, b, <<"1","0">>)
                        /\ Boundary(w, b + 2)
             hits == { i \in 1..Len(SEVERITY_WORDS) :
                         /\ MatchesIgnoreCase(w, pos, SEVERITY_WORDS[i])
                         /\ Boundary(w, pos + Len(SEVERITY_WORDS[i])) }
         IN  IF numeric THEN Match(w, pos, b + 2, Slice(w, pos, pos + n), <<>>)
             ELSE IF hits # {} THEN
                 LET i == MinOf(hits) IN
                 Match(w, pos, pos + Len(SEVERITY_WORDS[i]), <<>>,
                       Slice(w, pos, pos + Len(SEVERITY_WORDS[i])))
             ELSE NoMatch

\* SEVERITY_PATTERN.search(w): the leftmost match
SeverityPatternSearch(w) ==
    LET hits == { pos \in 0..Len(w) : SeverityPatternMatch(w, pos).found } IN
    IF hits = {} THEN NoMatch ELSE SeverityPatternMatch(w, MinOf(hits))

\* the window from at most 30 characters before the match to at most 30 after it
SeverityWindow(text, symptom_start, symptom_end) ==
    Slice(text, IF symptom_start - 30 > 0 THEN symptom_start - 30 ELSE 0,
          IF symptom_end + 30 < Len(text) THEN symptom_end + 30 ELSE Len(text))

\* the severity string of the result `match` of the search
SeverityOf(match) ==
    IF match.found THEN
        IF match.group1 # <<>> THEN match.group1 \o <<"/","1","0">>
        ELSE IF match.group2 # <<>> THEN
            LET severity_word == StrLower(match.group2) IN
            IF severity_word = W_bahut THEN W_severe ELSE severity_word
        ELSE Absent
    ELSE Absent

\* the severity searched in the whole text instead of the window
SymptomExtractSeverityWholeText(text, symptom_start, symptom_end) ==
    SeverityOf(SeverityPatternSearch(text))

SymptomParser_extract_severity_near(text, symptom_start, symptom_end) ==
    SeverityOf(SeverityPatternSearch(SeverityWindow(text, symptom_start, symptom_end)))

\* re.search of the after_meal pattern succeeds
SearchAfterMeal(text) ==
    \E pos \in 0..Len(text) :
        /\ Boundary(text, pos)
        /\ MatchesExact(text, pos, W_after)
        /\ LET k == SpaceRun(text, pos + Len(W_after)) IN
           /\ k >= 1
           /\ \E i \in 1..Len(AFTER_MEAL_WORDS) :
                /\ MatchesExact(text, pos + Len(W_after) + k, AFTER_MEAL_WORDS[i])
                /\ Boundary(text, pos + Len(W_after) + k + Len(AFTER_MEAL_WORDS[i]))

\* the time hint of the keyword that comes first in the text, whatever its
\* category
SymptomExtractTimeHintFirstInText(text) ==
    LET At(j) == { pos \in 0..Len(text) :
                     \E i \in 1..Len(TIME_HINTS[j].words) :
                         /\ Boundary(text, pos)
                         /\ MatchesExact(text, pos, TIME_HINTS[j].words[i])
                         /\ Boundary(text, pos + Len(TIME_HINTS[j].words[i])) }
        hits == { j \in 1..Len(TIME_HINTS) : At(j) # {} }
    IN  IF hits # {}
        THEN TIME_HINTS[CHOOSE j \in hits :
                            \A k \in hits : MinOf(At(j)) <= MinOf(At(k))].time_type
        ELSE IF SearchAfterMeal(text) THEN "after_meal"
        ELSE NoTimeHint

\* the time hint with the patterns searched in text_lower, the lower-cased
\* copy of the text
SymptomExtractTimeHintLowered(text) ==
    LET text_lower == StrLower(text)
        hits == { j \in 1..Len(TIME_HINTS) : SearchWord(text_lower, TIME_HINTS[j].words) }
    IN  IF hits # {} THEN TIME_HINTS[MinOf(hits)].time_type
        ELSE IF SearchAfterMeal(text_lower) THEN "after_meal"
        ELSE NoTimeHint

SymptomParser_extract_time_hint(text) ==
    LET hits == { j \in 1..Len(TIME_HINTS) : SearchWord(text, TIME_HINTS[j].words) } IN
    IF hits # {} THEN TIME_HINTS[MinOf(hits)].time_type
    ELSE IF SearchAfterMeal(text) THEN "after_meal"
    ELSE NoTimeHint

\* synonym_map of _normalize_symptom_name
SynonymMap(name) ==
    CASE name = <<"c","r","a","m","p","i","n","g">> -> <<"c","r","a","m","p","s">>
      [] name = <<"a","c","h","i","n","g">> -> <<"a","c","h","e">>
      [] name = <<"b","l","o","a","t","e","d">> -> <<"b","l","o","a","t","i","n","g">>
      [] name = <<"g","a","s","s","y">> -> <<"g","a","s">>
      [] name = <<"n","a","u","s","e","o","u","s">> -> <<"n","a","u","s","e","a">>
      [] name = <<"d","i","z","z","y">> -> <<"d","i","z","z","i","n","e","s","s">>
      [] name = <<"a","n","x","i","o","u","s">> -> <<"a","n","x","i","e","t","y">>
      [] name = <<"s","t","r","e","s","s","e","d">> -> <<"s","t","r","e","s","s">>
      [] name = <<"e","x","h","a","u","s","t","e","d">> -> <<"f","a","t","i","g","u","e">>
      [] name = <<"e","x","h","a","u","s","t","i","o","n">> -> <<"f","a","t","i","g","u","e">>
      [] name = <<"t","i","r","e","d">> -> <<"f","a","t","i","g","u","e">>
      [] name = <<"s","l","e","e","p","y">> -> <<"s","l","e","e","p","i","n","e","s","s">>
      [] OTHER -> <<>>

SymptomParser_normalize_symptom_name(symptom_name) ==
    LET name == Strip(StrLower(symptom_name)) IN
    IF SynonymMap(name) # <<>> THEN SynonymMap(name) ELSE name

clear_symptoms ==
    { <<"c","r","a","m","p","s">>, <<"m","i","g","r","a","i","n","e">>,
      <<"h","e","a","d","a","c","h","e">>, <<"n","a","u","s","e","a">>,
      <<"b","l","o","a","t","i","n","g">>, <<"p","a","i","n">>, <<"f","e","v","e","r">>,
      <<"d","i","z","z","i","n","e","s","s">> }

\* the score with negation taken as a reason to doubt the match: 0.1 less
SymptomConfidenceNegationLowers(symptom_name, severity, is_negated, time_hint) ==
    LET c0 == 75
        c1 == IF severity # Absent THEN c0 + 15 ELSE c0
        c2 == IF time_hint # NoTimeHint THEN c1 + 5 ELSE c1
        c3 == IF is_negated THEN c2 - 10 ELSE c2
        c4 == IF StrLower(symptom_name) \in clear_symptoms THEN c3 + 5 ELSE c3
    IN  IF c4 < 100 THEN c4 ELSE 100

\* confidence in hundredths
SymptomParser_calculate_confidence(symptom_name, severity, is_negated, time_hint) ==
    LET c0 == 75
        c1 == IF severity # Absent THEN c0 + 15 ELSE c0
        c2 == IF time_hint # NoTimeHint THEN c1 + 5 ELSE c1
        c3 == IF is_negated THEN (IF c2 > 90 THEN c2 ELSE 90) ELSE c2
        c4 == IF StrLower(symptom_name) \in clear_symptoms THEN c3 + 5 ELSE c3
    IN  IF c4 < 100 THEN c4 ELSE 100

SymptomMention(name, severity, time_hint, negated, confidence) ==
    [ name |-> name, severity |-> severity, time_hint |-> time_hint, negated |-> negated,
      confidence |-> confidence ]

\* the symptom_item built from the matched name and what was found around it
SymptomItemOf(symptom_name, is_negated, severity, time_hint) ==
    SymptomMention(SymptomParser_normalize_symptom_name(symptom_name),
                   severity, time_hint, is_negated,
                   SymptomParser_calculate_confidence(symptom_name, severity, is_negated,
                                                      time_hint))

\* the body of the for loop of parse for one match
SymptomItem(text, match) ==
    SymptomItemOf(StrLower(match.group1),
                  SymptomParser_check_negation(text, match.start),
                  SymptomParser_extract_severity_near(text, match.start, match.end),
                  SymptomParser_extract_time_hint(text))

\* the loop with symptoms.insert(0, symptom_item) in place of append: the
\* mention of the latest match comes first
RECURSIVE SymptomLoopNewestFirst(_, _, _, _, _)
SymptomLoopNewestFirst(text, matches, i, seen_positions, symptoms) ==
    IF i > Len(matches) THEN symptoms
    ELSE IF matches[i].start \in seen_positions
         THEN SymptomLoopNewestFirst(text, matches, i + 1, seen_positions, symptoms)
    ELSE SymptomLoopNewestFirst(text, matches, i + 1, seen_positions \cup { matches[i].start },
                                << SymptomItem(text, matches[i]) >> \o symptoms)

\* the for loop of parse over matches[i..], with seen_positions and symptoms so far
RECURSIVE SymptomLoop(_, _, _, _, _)
SymptomLoop(text, matches, i, seen_positions, symptoms) ==
    IF i > Len(matches) THEN symptoms
    ELSE IF matches[i].start \in seen_positions
         THEN SymptomLoop(text, matches, i + 1, seen_positions, symptoms)
    ELSE SymptomLoop(text, matches, i + 1, seen_positions \cup { matches[i].start },
                     Append(symptoms, SymptomItem(text, matches[i])))

\* SymptomParser.parse(text) of a parser whose compiled pattern is `pattern`
SymptomParser_parse(pattern, text) ==
    IF ~Truthy(text) \/ text.t # "str" THEN Return(<<>>)
    ELSE Return(SymptomLoop(text.s, SymptomFinditer(pattern, text.s, 0), 1, {}, <<>>))

(***************************************************************************)
(* LightParsePipeline                                                      *)
(***************************************************************************)
VERSION == "v1.0"

\* A record handed to run: a dict with optional 'entry_id' and 'text' keys, or
\* any other JSON value (kind is then its Python type)
DictEntry(has_id, entry_id, has_text, text) ==
    [ kind |-> "dict", has_id |-> has_id, entry_id |-> entry_id, has_text |-> has_text,
      text |-> text ]

NonDictEntry(kind) ==
    [ kind |-> kind, has_id |-> FALSE, entry_id |-> None, has_text |-> FALSE, text |-> None ]

\* Fault injection: the exception message a parser's parse is made to raise
\* with, NoFault when the parser runs as written
NoFault == ""

Faults(food, symptom) == [ food |-> food, symptom |-> symptom ]

ParseError(error, message) == [ error |-> error, message |-> message ]

\* self.food_parser.parse(text) / self.symptom_parser.parse(text) as run calls them
FoodParserInvoke(food_pattern_, text, fault) ==
    IF fault # NoFault THEN Raise("Exception", fault)
    ELSE FoodParser_parse(food_pattern_, text)

SymptomParserInvoke(symptom_pattern_, text, fault) ==
    IF fault # NoFault THEN Raise("Exception", fault)
    ELSE SymptomParser_parse(symptom_pattern_, text)

\* `except Exception as e` around a parser call that ended with `out`: the
\* mentions, and the error appended when the call raised
Caught(error, out) ==
    IF out.raised
    THEN Return([ mentions |-> <<>>, errors |-> << ParseError(error, out.msg) >> ])
    ELSE Return([ mentions |-> out.ret, errors |-> <<>> ])

\* the validation written as `if text == ''`: a None text is not reported
EmptyTextErrorsOnlyEmptyString(text) ==
    IF text = StrVal(<<>>) THEN << ParseError("empty_text", "Entry text is empty") >> ELSE <<>>

\* the input validation of run: the errors list after it
EmptyTextErrors(text) ==
    IF ~Truthy(text) THEN << ParseError("empty_text", "Entry text is empty") >> ELSE <<>>

\* the first try block with an except clause too narrow for the failure: the
\* exception leaves run
TryFoodParserNarrowExcept(food_pattern_, text, fault) ==
    LET out == IF Truthy(text) THEN FoodParserInvoke(food_pattern_, text, fault)
               ELSE Return(<<>>)
    IN  IF out.raised THEN out
        ELSE Return([ mentions |-> out.ret, errors |-> <<>> ])

\* the first try block of run: returns the foods and the errors it appends, or
\* raises what the except clause does not catch
TryFoodParser(food_pattern_, text, fault) ==
    Caught("food_parser_error",
           IF Truthy(text) THEN FoodParserInvoke(food_pattern_, text, fault)
           ELSE Return(<<>>))

\* the second try block of run
TrySymptomParser(symptom_pattern_, text, fault) ==
    Caught("symptom_parser_error",
           IF Truthy(text) THEN SymptomParserInvoke(symptom_pattern_, text, fault)
           ELSE Return(<<>>))

\* entry.get('entry_id') without the default: None when the key is absent
EntryIdNoDefault(entry) ==
    IF entry.has_id THEN entry.entry_id ELSE None

\* entry.get('entry_id', 'unknown')
EntryId(entry) ==
    IF entry.has_id THEN entry.entry_id ELSE StrVal(<<"u","n","k","n","o","w","n">>)

\* the text run works on: entry.get('text', '')
EntryText(entry) == IF entry.has_text THEN entry.text ELSE StrVal(<<>>)

\* the result run assembles from what the validation and the two try blocks left
Assemble(entry_id, errors0, food, symptom) ==
    IF food.raised THEN food
    ELSE IF symptom.raised THEN symptom
    ELSE Return([ entry_id |-> entry_id,
                  foods |-> food.ret.mentions,
                  symptoms |-> symptom.ret.mentions,
                  parse_errors |-> errors0 \o food.ret.errors \o symptom.ret.errors,
                  parser_version |-> VERSION ])

\* LightParsePipeline.run(entry) on a pipeline whose parsers hold the two patterns
LightParsePipeline_run(food_pattern_, symptom_pattern_, entry, faults) ==
    IF entry.kind # "dict" THEN Raise("AttributeError", "object has no attribute 'get'")
    ELSE Assemble(EntryId(entry),
                  EmptyTextErrors(EntryText(entry)),
                  TryFoodParser(food_pattern_, EntryText(entry), faults.food),
                  TrySymptomParser(symptom_pattern_, EntryText(entry), faults.symptom))

\* the list comprehension [self.run(entry) for entry in entries], outs[i] being
\* how run ends on entry i: the first exception leaves the comprehension
Comprehension(outs) ==
    IF \E i \in 1..Len(outs) : outs[i].raised
    THEN outs[MinOf({ i \in 1..Len(outs) : outs[i].raised })]
    ELSE Return([ i \in 1..Len(outs) |-> outs[i].ret ])

\* run_batch with a filter in the comprehension, `for entry in entries if
\* entry.get('text')`: records without text get no result
RECURSIVE RunBatchSkipEmptyFrom(_, _, _, _, _, _)
RunBatchSkipEmptyFrom(food_pattern_, symptom_pattern_, entries, faults, i, acc) ==
    IF i > Len(entries) THEN Return(acc)
    ELSE IF entries[i].kind # "dict"
         THEN Raise("AttributeError", "object has no attribute 'get'")
    ELSE IF ~(entries[i].has_text /\ Truthy(entries[i].text))
         THEN RunBatchSkipEmptyFrom(food_pattern_, symptom_pattern_, entries, faults, i + 1, acc)
    ELSE LET r == LightParsePipeline_run(food_pattern_, symptom_pattern_, entries[i], faults[i]) IN
         IF r.raised THEN r
         ELSE RunBatchSkipEmptyFrom(food_pattern_, symptom_pattern_, entries, faults, i + 1,
                                    Append(acc, r.ret))

RunBatchSkipEmpty(food_pattern_, symptom_pattern_, entries, faults) ==
    RunBatchSkipEmptyFrom(food_pattern_, symptom_pattern_, entries, faults, 1, <<>>)

\* LightParsePipeline.run_batch(entries); faults[i] is the fault injected while entry i runs
LightParsePipeline_run_batch(food_pattern_, symptom_pattern_, entries, faults) ==
    Comprehension([ i \in 1..Len(entries) |->
                      LightParsePipeline_run(food_pattern_, symptom_pattern_,
                                             entries[i], faults[i]) ])

FOOD_PARSER_VERSION == "v1.0"

SYMPTOM_PARSER_VERSION == "v1.0"

LightParsePipeline_get_parser_info ==
    Return([ pipeline_version |-> VERSION, food_parser_version |-> FOOD_PARSER_VERSION,
             symptom_parser_version |-> SYMPTOM_PARSER_VERSION ])

(***************************************************************************)
(* Inputs                                                                  *)
(***************************************************************************)
\* longest text, in fragments, handed to the food parser / to the symptom parser
MaxFoodWords == 3

MaxSymptomWords == 3

\* longest text, in fragments, put in an entry handed to run
MaxPipeWords == 2

\* longest batch handed to run_batch
MaxBatch == 3

\* the calls made after the pinned one are counted up to this many
MaxSince == 2

\* text fragments for the food parser; the last one is 28 characters long, so that
\* a fragment before it falls on the edge of the 30-character window
FoodVocab ==
    { <<"2"," ">>,
      <<"1">>,
      <<"h","a","l","f"," ","c","u","p"," ">>,
      <<"1",".","5"," ">>,
      <<"e","g","g","s"," ">>,
      <<"t","o","a","s","t"," ">>,
      <<"p","r","o","t","e","i","n"," ","s","h","a","k","e"," ">>,
      <<"r","i","c","e"," ","+"," ">>,
      <<"s","k","i","p","p","e","d"," ">>,
      <<"d","i","n","n","e","r"," ">>,
      <<"a","n","d"," ","t","h","e","n"," ","a","l","s","o"," ","s","o","m","e","t","h","i","n","g"," ","e","l","s","e">> }

\* text fragments for the symptom parser
SymptomVocab ==
    { <<"n","o"," ">>,
      <<"p","i","a">>,
      <<"h","e","a","d","a","c","h","e"," ">>,
      <<"b","l","o","a","t","i","n","g"," ">>,
      <<"n","o"," ","b","l","o","a","t","e","d"," ">>,
      <<"s","e","v","e","r","e"," ","a","t"," ","n","i","g","h","t"," ">>,
      <<"6","/","1","0"," ">>,
      <<"s","o","r","e"," ">>,
      <<"t","h","r","o","a","t"," ">>,
      <<"a","n","d"," ","t","h","e","n"," ","a","l","s","o"," ","s","o","m","e","t","h","i","n","g"," ","e","l","s","e">> }

\* text fragments for the entries handed to the pipeline
PipeVocab ==
    { <<"2"," ","e","g","g","s"," ">>,
      <<"n","o"," ","c","r","a","m","p","s"," ">>,
      <<"s","k","i","p","p","e","d"," ","l","u","n","c","h"," ">>,
      <<"s","e","v","e","r","e"," ","h","e","a","d","a","c","h","e"," ","a","t"," ","n","i","g","h","t"," ">>,
      <<"n","o","t"," ","t","i","r","e","d"," ">>,
      <<"r","i","c","e"," ","f","o","r"," ","d","i","n","n","e","r"," ">> }

RECURSIVE Concat(_)
Concat(ws) == IF ws = <<>> THEN <<>> ELSE Head(ws) \o Concat(Tail(ws))

Texts(vocab, maxw) ==
    { Concat(ws) : ws \in UNION { [ 1..n -> vocab ] : n \in 0..maxw } }

\* texts that exercise single rules of the two parsers: plural and synonym
\* forms, the edge of the negation window, meal and time keywords, severity
\* words, terms that contain other terms
CaseTexts ==
    { <<"c","o","o","k","i","e","s"," ","a","n","d"," ","b","e","r","r","i","e","s">>,
      <<"c","r","a","m","p","i","n","g"," ","a","c","h","i","n","g"," ","b","l","o","a","t","e","d"," ","g","a","s","s","y"," ","n","a","u","s","e","o","u","s"," ","d","i","z","z","y"," ","a","n","x","i","o","u","s"," ","s","t","r","e","s","s","e","d"," ","e","x","h","a","u","s","t","e","d"," ","e","x","h","a","u","s","t","i","o","n"," ","t","i","r","e","d"," ","s","l","e","e","p","y">>,
      <<"c","o","o","k","i","e","s"," ","a","n","d"," ","b","e","r","r","i","e","s"," ","m","a","d","e"," ","m","e"," ","g","a","s","s","y"," ","a","n","d"," ","s","l","e","e","p","y">>,
      <<"p","i","a","n","o"," ","a","n","d"," ","t","h","e","n"," ","a","l","s","o"," ","s","o","m","e","t","h","i","n","g"," ","1","2"," ","h","e","a","d","a","c","h","e">>,
      <<"N","o","t"," ","d","i","z","z","y",","," ","h","a","d"," ","a"," ","h","e","a","d","a","c","h","e"," ","b","u","t"," ","N","E","V","E","R"," ","a","n","y"," ","n","a","u","s","e","a"," ","w","i","t","h","o","u","t"," ","r","e","a","s","o","n">>,
      <<"e","g","g","s"," ","a","n","d"," ","t","o","a","s","t"," ","i","n"," ","t","h","e"," ","m","o","r","n","i","n","g">>,
      <<"r","i","c","e"," ","f","o","r"," ","d","i","n","n","e","r"," ","i","n"," ","t","h","e"," ","m","o","r","n","i","n","g">>,
      <<"r","i","c","e"," ","t","h","i","s"," ","M","o","r","n","i","n","g">>,
      <<"r","i","c","e"," ","a","t"," ","8"," ","a","m">>,
      <<"c","h","a","i"," ","a","n","d"," ","s","n","a","c","k","s"," ","a","t"," ","n","i","g","h","t">>,
      <<"r","i","c","e"," ","a","t"," ","n","i","g","h","t"," ","t","h","e","n"," ","t","o","a","s","t"," ","a","t"," ","n","o","o","n">>,
      <<"h","e","a","d","a","c","h","e"," ","a","n","d"," ","n","a","u","s","e","a"," ","a","t"," ","n","i","g","h","t"," ","b","u","t"," ","f","i","n","e"," ","i","n"," ","t","h","e"," ","m","o","r","n","i","n","g">>,
      <<"S","t","o","m","a","c","h"," ","p","a","i","n"," ","a","f","t","e","r"," ","e","a","t","i","n","g">>,
      <<"c","r","a","m","p","s"," ","a","f","t","e","r"," ","l","u","n","c","h"," ","a","n","d"," ","t","h","e","n"," ","a","l","s","o"," ","s","o","m","e","t","h","i","n","g"," ","e","l","s","e"," ","e","n","t","i","r","e","l","y"," ","a","t"," ","n","o","o","n">>,
      <<"M","o","r","n","i","n","g"," ","h","e","a","d","a","c","h","e">>,
      <<"f","e","v","e","r"," ","a","t"," ","9"," ","P","M">>,
      <<"B","a","h","u","t"," ","p","a","i","n"," ","7"," ","/"," ","1","0">>,
      <<"m","i","l","d"," ","h","e","a","d","a","c","h","e"," ","t","h","e","n"," ","s","e","v","e","r","e">>,
      <<"H","e","a","d","a","c","h","e"," ","w","a","s"," ","S","E","V","E","R","E">>,
      <<"d","a","y","l","i","g","h","t"," ","a","n","d"," ","t","h","e","n"," ","a","l","s","o"," ","s","o","m","e","t","h","i","n","g"," ","h","e","a","d","a","c","h","e">>,
      <<"d","a","y","l","i","g","h","t"," ","a","n","d"," ","t","h","e","n"," ","a","l","s","o"," ","h","e","a","d","a","c","h","e">>,
      <<"f","e","v","e","r"," ","1","2","/","1","0"," ","o","r"," ","6","/","1","0","0">>,
      <<"s","o","r","e"," ","t","h","r","o","a","t"," ","a","n","d"," ","h","o","t"," ","f","l","a","s","h","e","s"," ","a","f","t","e","r"," ","a"," ","p","r","o","t","e","i","n"," ","s","h","a","k","e"," ","a","n","d"," ","2"," ","e","g","g","s",","," ","s","t","o","m","a","c","h"," ","p","a","i","n">>,
      <<"L","o","w","e","r"," ","b","a","c","k"," ","p","a","i","n",","," ","t","h","e","n"," ","a"," ","h","o","t"," ","f","l","a","s","h"," ","a","n","d"," ","a","n"," ","i","c","e"," ","c","r","e","a","m"," ","s","h","a","k","e">>,
      <<"A","t","e"," ","R","i","c","e"," ","t","h","i","s"," ","M","o","r","n","i","n","g",","," ","H","e","a","d","a","c","h","e"," ","a","t"," ","N","i","g","h","t">>,
      <<"t","o","a","s","t"," ","a","n","d"," ","n","a","u","s","e","a"," ","a","t"," ","7"," ","A","m",","," ","R","a","a","t">>,
      <<"o","a","t","s"," ","a","n","d"," ","c","r","a","m","p","s"," ","a","t"," ","7"," ","A","M">>,
      <<"H","a","d"," ","D","A","L"," ","f","o","r"," ","L","u","n","c","h",","," ","D","i","z","z","y"," ","A","f","t","e","r"," ","E","a","t","i","n","g">> }

\* the values a JSON record can carry as its text
NonStrValues == { None, IntVal(0), IntVal(5), ListVal(0), ListVal(2) }

TextValues ==
    NonStrValues \cup { StrVal(t) : t \in Texts(PipeVocab, MaxPipeWords) \cup CaseTexts }

\* the example entries of the documentation and the tests
ExampleTexts ==
    { <<"2"," ","e","g","g","s"," ","+"," ","1"," ","t","o","a","s","t">>,
      <<"S","k","i","p","p","e","d"," ","d","i","n","n","e","r","."," ","F","e","e","l","i","n","g"," ","t","i","r","e","d",".">>,
      <<"N","o"," ","h","e","a","d","a","c","h","e"," ","t","o","d","a","y">>,
      <<"B","a","c","k"," ","p","a","i","n"," ","6","/","1","0"," ","a","t"," ","n","i","g","h","t">>,
      <<"h","a","d"," ","e","g","g","s"," ","a","n","d"," ","a","l","m","o","n","d","s">>,
      <<"F","e","l","t"," ","b","l","o","a","t","e","d"," ","a","n","d"," ","t","i","r","e","d">> }

\* the texts handed to the food parser / to the symptom parser
FoodTexts == Texts(FoodVocab, MaxFoodWords) \cup ExampleTexts \cup CaseTexts

SymptomTexts == Texts(SymptomVocab, MaxSymptomWords) \cup ExampleTexts \cup CaseTexts

W_e1 == <<"e","1">>

W_unknown == <<"u","n","k","n","o","w","n">>

\* what load_jsonl can hand over: dicts with or without the two keys, and JSON
\* values that are not dicts
Entries ==
    { DictEntry(TRUE, StrVal(W_e1), TRUE, v) : v \in TextValues }
        \cup { DictEntry(FALSE, None, TRUE, v) : v \in TextValues }
        \cup { DictEntry(TRUE, StrVal(W_e1), FALSE, None), DictEntry(FALSE, None, FALSE, None) }
        \cup { NonDictEntry("int"), NonDictEntry("list"), NonDictEntry("none") }

FaultSet == { Faults(f, s) : f \in { NoFault, "food boom" }, s \in { NoFault, "symptom boom" } }

NoFaults == Faults(NoFault, NoFault)

T_eggs_cramps == <<"2"," ","e","g","g","s"," ","n","o"," ","c","r","a","m","p","s">>

T_skipped_lunch == <<"s","k","i","p","p","e","d"," ","l","u","n","c","h">>

\* the records of a batch
BatchEntries ==
    { DictEntry(TRUE, StrVal(W_e1), TRUE, StrVal(T_eggs_cramps)),
      DictEntry(TRUE, StrVal(W_e1), TRUE, StrVal(T_skipped_lunch)),
      DictEntry(TRUE, StrVal(W_e1), TRUE, None),
      DictEntry(TRUE, StrVal(W_e1), TRUE, StrVal(<<>>)),
      NonDictEntry("int") }

BatchFaultSet == { NoFaults, Faults("food boom", NoFault) }

\* a batch with the fault injected while each of its records runs
Batches ==
    UNION { [ 1..n -> BatchEntries \X BatchFaultSet ] : n \in 0..MaxBatch }

BatchArg(b) == [ i \in 1..Len(b) |-> b[i][1] ]

BatchFaults(b) == [ i \in 1..Len(b) |-> b[i][2] ]

\* the calls made on one pipeline object over its lifetime
LifeEntries ==
    { DictEntry(TRUE, StrVal(W_e1), TRUE, StrVal(T_eggs_cramps)),
      DictEntry(TRUE, StrVal(W_e1), TRUE, StrVal(T_skipped_lunch)),
      DictEntry(TRUE, StrVal(W_e1), TRUE, None),
      DictEntry(FALSE, None, FALSE, None),
      NonDictEntry("int") }

LifeBatches ==
    { <<>>,
      << DictEntry(TRUE, StrVal(W_e1), TRUE, StrVal(T_eggs_cramps)) >>,
      << DictEntry(TRUE, StrVal(W_e1), TRUE, StrVal(T_skipped_lunch)),
         DictEntry(TRUE, StrVal(W_e1), TRUE, None),
         DictEntry(TRUE, StrVal(W_e1), TRUE, StrVal(T_eggs_cramps)) >>,
      << DictEntry(TRUE, StrVal(W_e1), TRUE, StrVal(T_eggs_cramps)), NonDictEntry("int") >> }

LifeFaults == { NoFaults, Faults("food boom", NoFault) }

LifeTexts == NonStrValues \cup { StrVal(<<>>), StrVal(T_eggs_cramps), StrVal(T_skipped_lunch) }

(***************************************************************************)
(* State                                                                   *)
(***************************************************************************)
VARIABLES
    food_pattern,     \* FoodParser.food_pattern of the pipeline's food parser
    symptom_pattern,  \* SymptomParser.symptom_pattern of its symptom parser
    call,             \* the last call made and how it ended
    pinned,           \* some earlier call of run, kept to compare later calls with
    since             \* how many calls were made after the pinned one (up to MaxSince)

vars == << food_pattern, symptom_pattern, call, pinned, since >>

\* a call that has ended with outcome out
Call(op, arg, faults, out) ==
    [ op |-> op, arg |-> arg, faults |-> faults, done |-> TRUE, out |-> out ]

\* a call about to be made: its operation and arguments
Pending(op, arg, faults) ==
    [ op |-> op, arg |-> arg, faults |-> faults, done |-> FALSE, out |-> Return(<<>>) ]

NoCall == Pending("none", <<>>, <<>>)

\* LightParsePipeline(): both parsers compile their pattern once
Construct ==
    \E seed \in HashSeeds :
        /\ food_pattern = FoodParser_build_food_patterns(FoodIter(seed))
        /\ symptom_pattern = SymptomParser_build_symptom_patterns(SymptomIter(seed))

Init ==
    /\ Construct
    /\ call = NoCall
    /\ pinned = NoCall
    /\ since = 0

\* one more call was made after the pinned one
Later ==
    since' = IF pinned = NoCall THEN 0
             ELSE IF since < MaxSince THEN since + 1
             ELSE MaxSince

\* run as it would be if the symptom parser kept what it has reported on the
\* instance and no longer matched it: a call changes the parser's table
RunCallSeenOnSelf(entry, faults, pin) ==
    LET out == LightParsePipeline_run(food_pattern, symptom_pattern, entry, faults)
        reported == IF out.raised THEN {}
                    ELSE { out.ret.symptoms[i].name : i \in 1..Len(out.ret.symptoms) }
    IN  /\ call' = Call("run", entry, faults, out)
        /\ IF pin THEN pinned' = call' /\ since' = 0
           ELSE pinned' = pinned /\ Later
        /\ symptom_pattern' = SelectSeq(symptom_pattern, LAMBDA t : t \notin reported)
        /\ UNCHANGED food_pattern

\* pipeline.run(entry); pin says whether this call is the one kept in pinned
RunCall(entry, faults, pin) ==
    /\ call' = Call("run", entry, faults,
                    LightParsePipeline_run(food_pattern, symptom_pattern, entry, faults))
    /\ IF pin THEN pinned' = call' /\ since' = 0
       ELSE pinned' = pinned /\ Later
    /\ UNCHANGED << food_pattern, symptom_pattern >>

\* pipeline.run_batch(entries)
RunBatchCall(entries, faults) ==
    /\ call' = Call("run_batch", entries, faults,
                    LightParsePipeline_run_batch(food_pattern, symptom_pattern, entries, faults))
    /\ Later
    /\ UNCHANGED << food_pattern, symptom_pattern, pinned >>

\* pipeline.get_parser_info()
GetParserInfoCall ==
    /\ call' = Call("get_parser_info", <<>>, <<>>, LightParsePipeline_get_parser_info)
    /\ Later
    /\ UNCHANGED << food_pattern, symptom_pattern, pinned >>

\* pipeline.food_parser.parse(text)
FoodParseCall(text) ==
    /\ call' = Call("food_parse", text, <<>>, FoodParser_parse(food_pattern, text))
    /\ Later
    /\ UNCHANGED << food_pattern, symptom_pattern, pinned >>

\* pipeline.symptom_parser.parse(text)
SymptomParseCall(text) ==
    /\ call' = Call("symptom_parse", text, <<>>, SymptomParser_parse(symptom_pattern, text))
    /\ Later
    /\ UNCHANGED << food_pattern, symptom_pattern, pinned >>

\* one pipeline object over its lifetime: any calls, in any order
Next ==
    \/ \E entry \in LifeEntries, faults \in LifeFaults, pin \in BOOLEAN : RunCall(entry, faults, pin)
    \/ \E entries \in LifeBatches :
          RunBatchCall(entries, [ i \in 1..Len(entries) |-> NoFaults ])
    \/ GetParserInfoCall
    \/ \E text \in LifeTexts : FoodParseCall(text)
    \/ \E text \in LifeTexts : SymptomParseCall(text)

Spec == Init /\ [][Next]_vars

\* one call of run on a fresh pipeline, for every entry and injected fault
InitRun ==
    /\ Construct
    /\ \E entry \in Entries, faults \in FaultSet : call = Pending("run", entry, faults)
    /\ pinned = NoCall
    /\ since = 0

NextRun ==
    /\ call.op = "run" /\ ~call.done
    /\ RunCall(call.arg, call.faults, FALSE)

SpecRun == InitRun /\ [][NextRun]_vars

\* one call of run_batch on a fresh pipeline, for every batch
InitBatch ==
    /\ Construct
    /\ \E b \in Batches : call = Pending("run_batch", BatchArg(b), BatchFaults(b))
    /\ pinned = NoCall
    /\ since = 0

NextBatch ==
    /\ call.op = "run_batch" /\ ~call.done
    /\ RunBatchCall(call.arg, call.faults)

SpecBatch == InitBatch /\ [][NextBatch]_vars

\* one call of the food parser's parse on a fresh pipeline, for every text
InitFood ==
    /\ Construct
    /\ \E text \in FoodTexts : call = Pending("food_parse", StrVal(text), <<>>)
    /\ pinned = NoCall
    /\ since = 0

NextFood ==
    /\ call.op = "food_parse" /\ ~call.done
    /\ FoodParseCall(call.arg)

SpecFood == InitFood /\ [][NextFood]_vars

\* one call of the symptom parser's parse on a fresh pipeline, for every text
InitSymptom ==
    /\ Construct
    /\ \E text \in SymptomTexts : call = Pending("symptom_parse", StrVal(text), <<>>)
    /\ pinned = NoCall
    /\ since = 0

NextSymptom ==
    /\ call.op = "symptom_parse" /\ ~call.done
    /\ SymptomParseCall(call.arg)

SpecSymptom == InitSymptom /\ [][NextSymptom]_vars

(***************************************************************************)
(* Properties                                                              *)
(***************************************************************************)
\* C1 (determinism): no call changes the pattern tables of the two parsers, and
\* a call of run returns exactly what an earlier call of run on the same
\* pipeline returned for the same entry (under the same injected faults),
\* whatever calls were made in between.
C1_Determinism ==
    [][ /\ food_pattern' = food_pattern
        /\ symptom_pattern' = symptom_pattern
        /\ (/\ call'.op = "run"
            /\ pinned.op = "run"
            /\ call'.arg = pinned.arg
            /\ call'.faults = pinned.faults) => call'.out = pinned.out ]_vars

\* run is repeated on an entry with foods and symptoms after other calls were made
C1_Witness ==
    /\ call.op = "run" /\ pinned.op = "run"
    /\ since = MaxSince
    /\ call.arg = pinned.arg /\ call.faults = pinned.faults
    /\ ~call.out.raised
    /\ call.out.ret.foods # <<>> /\ call.out.ret.symptoms # <<>>

\* C2 (empty-input closure): FoodParser.parse and SymptomParser.parse return
\* the empty sequence, and do not raise, when the text is the empty string,
\* None or any value that is not a string.
C2_EmptyInputClosure ==
    (/\ call.done
     /\ call.op \in { "food_parse", "symptom_parse" }
     /\ (call.arg.t # "str" \/ call.arg.s = <<>>))
        => (~call.out.raised /\ call.out.ret = <<>>)

\* the food parser was handed the integer 5 and returned the empty sequence
C2_Witness ==
    /\ call.done /\ call.op = "food_parse"
    /\ call.arg = IntVal(5)
    /\ call.out = Return(<<>>)

\* C3 (isolation under failure): when the food parser raises while run
\* processes a dict entry with a non-empty text, run returns, foods is empty,
\* parse_errors holds a food_parser_error with the failure message, and
\* symptoms is what the symptom parser returns for that text; the same with
\* the two parsers exchanged.
C3_IsolationUnderFailure ==
    (/\ call.done /\ call.op = "run"
     /\ call.arg.kind = "dict"
     /\ Truthy(EntryText(call.arg)))
        => LET text == EntryText(call.arg)
               food_failed == FoodParserInvoke(food_pattern, text, call.faults.food).raised
               symptom_failed ==
                   SymptomParserInvoke(symptom_pattern, text, call.faults.symptom).raised
               r == call.out.ret
               HasError(e) == \E i \in 1..Len(r.parse_errors) : r.parse_errors[i] = e
           IN  /\ ~call.out.raised
               /\ food_failed =>
                     /\ r.foods = <<>>
                     /\ HasError(ParseError("food_parser_error", call.faults.food))
                     /\ ~symptom_failed =>
                           r.symptoms = SymptomParser_parse(symptom_pattern, text).ret
               /\ symptom_failed =>
                     /\ r.symptoms = <<>>
                     /\ HasError(ParseError("symptom_parser_error", call.faults.symptom))
                     /\ ~food_failed => r.foods = FoodParser_parse(food_pattern, text).ret

\* the food parser failed on an entry whose symptoms were still reported
C3_Witness ==
    /\ call.done /\ call.op = "run"
    /\ call.faults = Faults("food boom", NoFault)
    /\ ~call.out.raised
    /\ call.out.ret.foods = <<>>
    /\ call.out.ret.symptoms # <<>>
    /\ call.out.ret.parse_errors = << ParseError("food_parser_error", "food boom") >>

\* C8 (empty or missing text): when the entry's text is absent, None or the
\* empty string, run returns no foods, no symptoms and parse_errors whose first
\* element is the empty_text error with message 'Entry text is empty'; when
\* the text is non-empty and no parser fails, parse_errors is empty.
C8_EmptyText ==
    (call.done /\ call.op = "run" /\ call.arg.kind = "dict")
        => LET text == EntryText(call.arg)
               r == call.out.ret
           IN  /\ (~call.arg.has_text \/ text = None \/ text = StrVal(<<>>)) =>
                     /\ ~call.out.raised
                     /\ r.foods = <<>> /\ r.symptoms = <<>>
                     /\ r.parse_errors # <<>>
                     /\ r.parse_errors[1] = ParseError("empty_text", "Entry text is empty")
               /\ (Truthy(text) /\ call.faults = NoFaults) =>
                     /\ ~call.out.raised
                     /\ r.parse_errors = <<>>

\* run was handed an entry whose text is None and reported empty_text
C8_Witness ==
    /\ call.done /\ call.op = "run"
    /\ call.arg.kind = "dict" /\ call.arg.has_text /\ call.arg.text = None
    /\ ~call.out.raised
    /\ call.out.ret.parse_errors = << ParseError("empty_text", "Entry text is empty") >>

\* C4 (no failure is fatal to run_batch): for every sequence of records the
\* loader can hand over, records that are not dicts included, run_batch returns
\* without raising, with one result per record.
C4_BatchNeverFatal ==
    (call.done /\ call.op = "run_batch")
        => (~call.out.raised /\ Len(call.out.ret) = Len(call.arg))

\* C5 (batch independence): on a batch of dict entries run_batch returns a
\* sequence as long as the batch whose i-th element is what run returns for
\* the i-th entry alone, in the same order, whatever the other entries are.
C5_BatchIsRunPerEntry ==
    (/\ call.done /\ call.op = "run_batch"
     /\ \A i \in 1..Len(call.arg) : call.arg[i].kind = "dict")
        => /\ ~call.out.raised
           /\ Len(call.out.ret) = Len(call.arg)
           /\ \A i \in 1..Len(call.arg) :
                call.out.ret[i] =
                    LightParsePipeline_run(food_pattern, symptom_pattern,
                                           call.arg[i], call.faults[i]).ret

\* a batch of three whose middle entry has text None: three results, the first
\* and the third with their foods and symptoms
C5_Witness ==
    /\ call.done /\ call.op = "run_batch"
    /\ Len(call.arg) = 3
    /\ \A i \in 1..3 : call.arg[i].kind = "dict"
    /\ call.arg[2].text = None
    /\ ~call.out.raised
    /\ Len(call.out.ret) = 3
    /\ call.out.ret[1].foods # <<>> /\ call.out.ret[1].symptoms # <<>>
    /\ call.out.ret[2].foods = <<>>
    /\ call.out.ret[3].foods # <<>>

\* a keyword of MEAL_KEYWORDS[j] occurs in the lower-cased text
MealKeywordOccurs(j, text_lower) ==
    \E k \in 1..Len(MEAL_KEYWORDS[j].keywords) :
        \E pos \in 0..Len(text_lower) :
            MatchesExact(text_lower, pos, MEAL_KEYWORDS[j].keywords[k])

\* C6 (skip short-circuit): whenever the text contains a skip indicator (in
\* any letter case), FoodParser.parse returns exactly one mention, named
\* 'skipped', without quantity and unit; its meal is a meal whose keyword
\* occurs in the text, with confidence 0.95, or 'unknown' with confidence 0.90
\* when no meal keyword occurs.
C6_SkipShortCircuit ==
    (/\ call.done /\ call.op = "food_parse"
     /\ call.arg.t = "str"
     /\ \E i \in 1..Len(SKIP_INDICATORS) :
           \E pos \in 0..Len(call.arg.s) :
               MatchesIgnoreCase(call.arg.s, pos, SKIP_INDICATORS[i]))
        => LET ret == call.out.ret
               text_lower == StrLower(call.arg.s)
           IN  /\ ~call.out.raised
               /\ Len(ret) = 1
               /\ ret[1].name = W_skipped
               /\ ret[1].quantity = NoQuantity
               /\ ret[1].unit = Absent
               /\ \/ /\ \E j \in 1..Len(MEAL_KEYWORDS) :
                          /\ ret[1].meal = MEAL_KEYWORDS[j].meal_type
                          /\ MealKeywordOccurs(j, text_lower)
                     /\ ret[1].confidence = 95
                  \/ /\ \A j \in 1..Len(MEAL_KEYWORDS) : ~MealKeywordOccurs(j, text_lower)
                     /\ ret[1].meal = "unknown"
                     /\ ret[1].confidence = 90

\* a text with a lexicon food, a skip indicator and a meal keyword gave the
\* single mention skipped/dinner
C6_Witness ==
    /\ call.done /\ call.op = "food_parse"
    /\ call.arg.t = "str"
    /\ Contains(call.arg.s, <<"e","g","g","s">>)
    /\ Contains(call.arg.s, <<"s","k","i","p","p","e","d">>)
    /\ call.out.ret = << FoodMention(W_skipped, NoQuantity, Absent, "dinner", 95) >>

\* C7 (confidence bounds): every food mention and every symptom mention that
\* a call of run, FoodParser.parse or SymptomParser.parse produces has a
\* confidence between 0.0 and 1.0, and of at least 0.7.
C7_ConfidenceBounds ==
    (call.done /\ ~call.out.raised
     /\ call.op \in { "run", "food_parse", "symptom_parse" })
        => LET InBounds(c) == 0 <= c /\ c <= 100 /\ c >= 70
               r == call.out.ret
               mentions == IF call.op = "run" THEN r.foods \o r.symptoms ELSE r
           IN  \A i \in 1..Len(mentions) : InBounds(mentions[i].confidence)

\* a result with a food mention and a negated symptom at the floor of 0.90
\* that negation gives
C7_Witness ==
    /\ call.done /\ call.op = "run" /\ ~call.out.raised
    /\ \E i \in 1..Len(call.out.ret.foods) : call.out.ret.foods[i].confidence = 85
    /\ \E i \in 1..Len(call.out.ret.symptoms) :
         /\ call.out.ret.symptoms[i].negated
         /\ call.out.ret.symptoms[i].confidence = 90

\* C9 (negation and confidence): every negated symptom mention has a
\* confidence of at least 0.90, and of two mentions with the same name,
\* severity and time hint the negated one never has the lower confidence.
C9_NegationConfidence ==
    (call.done /\ call.op = "symptom_parse" /\ ~call.out.raised)
        => LET ret == call.out.ret IN
           /\ \A i \in 1..Len(ret) : ret[i].negated => ret[i].confidence >= 90
           /\ \A i, j \in 1..Len(ret) :
                (/\ ret[i].name = ret[j].name
                 /\ ret[i].severity = ret[j].severity
                 /\ ret[i].time_hint = ret[j].time_hint
                 /\ ret[i].negated /\ ~ret[j].negated)
                    => ret[i].confidence >= ret[j].confidence

\* the quantity words of the window w: spans [a, e) that start at a word
\* boundary, spell a number, 'half' or 'quarter', and after which the pattern
\* can end (white space, an optional unit word, a word boundary)
UnitWordAt(w, pos, u) ==
    /\ MatchesIgnoreCase(w, pos, QUANTITY_UNITS[u])
    /\ Boundary(w, pos + Len(QUANTITY_UNITS[u]))

QuantityWords(w) ==
    { s \in (0..Len(w)) \X (1..Len(w)) :
        /\ s[1] < s[2]
        /\ Boundary(w, s[1])
        /\ LET word == StrLower(Slice(w, s[1], s[2])) IN
           word = W_half \/ word = W_quarter \/ ParseFloat(word).present
        /\ \E sp \in 0..SpaceRun(w, s[2]) :
             \/ Boundary(w, s[2] + sp)
             \/ \E u \in 1..Len(QUANTITY_UNITS) : UnitWordAt(w, s[2] + sp, u) }

\* the value of a quantity word
QuantityWordValue(word) ==
    IF StrLower(word) = W_half THEN [ present |-> TRUE, num |-> 5, den |-> 10 ]
    ELSE IF StrLower(word) = W_quarter THEN [ present |-> TRUE, num |-> 25, den |-> 100 ]
    ELSE ParseFloat(word)

\* C10 (quantity extraction): the quantity and unit of a matched food come
\* from the at-most-30 characters before the match only: both are absent when
\* that window holds no quantity word; otherwise the quantity is the value of
\* a quantity word of the window after which no other quantity word begins
\* ('half' is 0.5, 'quarter' is 0.25, a number its value), and the unit is the
\* unit word that follows it, absent when no unit word follows.
C10_QuantityFromWindow ==
    (/\ call.done /\ call.op = "food_parse" /\ ~call.out.raised
     /\ ~FoodParser_detect_skipped_meal(call.arg.s).found)
        => LET text == call.arg.s
               ret == call.out.ret
               matches == FoodFinditer(food_pattern, text, 0)
           IN  /\ Len(ret) = Len(matches)
               /\ \A i \in 1..Len(ret) :
                    LET start == matches[i].start
                        w == Slice(text, IF start > 30 THEN start - 30 ELSE 0, start)
                        words == QuantityWords(w)
                    IN  IF words = {}
                        THEN ret[i].quantity = NoQuantity /\ ret[i].unit = Absent
                        ELSE \E s \in words :
                               /\ \A o \in words : o[1] < s[2]
                               /\ ret[i].quantity = QuantityWordValue(Slice(w, s[1], s[2]))
                               /\ LET at == s[2] + SpaceRun(w, s[2]) IN
                                  IF \E u \in 1..Len(QUANTITY_UNITS) : UnitWordAt(w, at, u)
                                  THEN \E u \in 1..Len(QUANTITY_UNITS) :
                                         /\ UnitWordAt(w, at, u)
                                         /\ ret[i].unit = QUANTITY_UNITS[u]
                                  ELSE ret[i].unit = Absent

\* two quantities precede the food and one follows it: the nearer of the two
\* before it is reported
C10_Witness ==
    /\ call.done /\ call.op = "food_parse"
    /\ call.arg.s = <<"2"," ">> \o <<"h","a","l","f"," ","c","u","p"," ">>
                      \o <<"e","g","g","s"," ">>
    /\ call.out.ret = << FoodMention(<<"e","g","g">>, [ present |-> TRUE, num |-> 5, den |-> 10 ],
                                     <<"c","u","p">>, "unknown", 85) >>

\* the keys of plural_map that are lexicon terms (pieces and slices are no
\* food terms), and the keys of synonym_map
PluralFoodForms ==
    { <<"e","g","g","s">>, <<"a","l","m","o","n","d","s">>, <<"c","o","o","k","i","e","s">>,
      <<"b","e","r","r","i","e","s">> }

SynonymForms ==
    { <<"c","r","a","m","p","i","n","g">>, <<"a","c","h","i","n","g">>,
      <<"b","l","o","a","t","e","d">>, <<"g","a","s","s","y">>,
      <<"n","a","u","s","e","o","u","s">>, <<"d","i","z","z","y">>,
      <<"a","n","x","i","o","u","s">>, <<"s","t","r","e","s","s","e","d">>,
      <<"e","x","h","a","u","s","t","e","d">>, <<"e","x","h","a","u","s","t","i","o","n">>,
      <<"t","i","r","e","d">>, <<"s","l","e","e","p","y">> }

\* the food mentions and the symptom mentions of a finished call
FoodsOf(c) ==
    IF c.op = "run" THEN c.out.ret.foods
    ELSE IF c.op = "food_parse" THEN c.out.ret ELSE <<>>

SymptomsOf(c) ==
    IF c.op = "run" THEN c.out.ret.symptoms
    ELSE IF c.op = "symptom_parse" THEN c.out.ret ELSE <<>>

\* C11 (canonical name normalization): no food mention that run or
\* FoodParser.parse produces is named eggs, almonds, cookies or berries, and
\* no symptom mention that run or SymptomParser.parse produces is named
\* cramping, aching, bloated, gassy, nauseous, dizzy, anxious, stressed,
\* exhausted, exhaustion, tired or sleepy.
C11_CanonicalNames ==
    (call.done /\ ~call.out.raised
     /\ call.op \in { "run", "food_parse", "symptom_parse" })
        => /\ \A i \in 1..Len(FoodsOf(call)) :
                FoodsOf(call)[i].name \notin PluralFoodForms
           /\ \A i \in 1..Len(SymptomsOf(call)) :
                SymptomsOf(call)[i].name \notin SynonymForms

\* 'cookies and berries made me gassy and sleepy' gave the foods cookie and
\* berry and the symptoms gas and sleepiness
C11_Witness ==
    /\ call.done /\ call.op = "run" /\ ~call.out.raised
    /\ Len(call.out.ret.foods) = 2
    /\ call.out.ret.foods[1].name = <<"c","o","o","k","i","e">>
    /\ call.out.ret.foods[2].name = <<"b","e","r","r","y">>
    /\ Len(call.out.ret.symptoms) = 2
    /\ call.out.ret.symptoms[1].name = <<"g","a","s">>
    /\ call.out.ret.symptoms[2].name = <<"s","l","e","e","p","i","n","e","s","s">>


\* what the result of run on a dict entry carries as entry_id and parser_version
Traceable(entry, result) ==
    /\ entry.has_id => result.entry_id = entry.entry_id
    /\ ~entry.has_id => result.entry_id = StrVal(W_unknown)
    /\ result.parser_version = VERSION
    /\ result.parser_version = LightParsePipeline_get_parser_info.ret.pipeline_version

\* C12 (traceability): every result of run, alone or inside a batch, carries
\* the entry_id of its entry, 'unknown' when the entry has none, and as
\* parser_version the orchestrator VERSION; get_parser_info reports that same
\* value as pipeline_version, so a result kept from an earlier call agrees
\* with what get_parser_info says later.
C12_Traceability ==
    /\ (call.done /\ call.op = "run" /\ ~call.out.raised)
          => Traceable(call.arg, call.out.ret)
    /\ (call.done /\ call.op = "run_batch" /\ ~call.out.raised)
          => \A i \in 1..Len(call.arg) : Traceable(call.arg[i], call.out.ret[i])
    /\ (call.done /\ call.op = "get_parser_info")
          => /\ ~call.out.raised
             /\ call.out.ret.pipeline_version = VERSION
             /\ (pinned # NoCall /\ ~pinned.out.raised)
                   => pinned.out.ret.parser_version = call.out.ret.pipeline_version

\* the result of run on an entry without entry_id was kept, it says 'unknown',
\* and get_parser_info was then called
C12_Witness ==
    /\ call.done /\ call.op = "get_parser_info"
    /\ pinned # NoCall /\ ~pinned.out.raised
    /\ ~pinned.arg.has_id
    /\ pinned.out.ret.entry_id = StrVal(W_unknown)
    /\ pinned.out.ret.parser_version = call.out.ret.pipeline_version

\* the score of a reported food mention by the rule on its reported fields
FoodScoreOf(mention) ==
    70 + (IF mention.quantity.present THEN 15 ELSE 0)
       + (IF mention.meal # "unknown" THEN 10 ELSE 0)
       + (IF mention.name \in common_foods THEN 5 ELSE 0)

\* C13 (food confidence): every food mention outside the skip short-circuit
\* has the confidence min(1.0, 0.70 + 0.15 if it has a quantity + 0.10 if its
\* meal is not 'unknown' + 0.05 if its normalized name is one of rice, egg,
\* bread, chicken, dal, milk, toast); 'egg' gets the 0.05 whether the text
\* said 'egg' or 'eggs'.
C13_FoodConfidence ==
    (/\ call.done /\ call.op = "food_parse" /\ ~call.out.raised
     /\ ~FoodParser_detect_skipped_meal(call.arg.s).found)
        => \A i \in 1..Len(call.out.ret) :
              call.out.ret[i].confidence =
                  MinOf({ 100, FoodScoreOf(call.out.ret[i]) })

\* the score of a reported symptom mention by the rule on its reported fields
SymptomScoreOf(mention) ==
    LET c1 == 75 + (IF mention.severity # Absent THEN 15 ELSE 0)
                 + (IF mention.time_hint # NoTimeHint THEN 5 ELSE 0)
        c2 == IF mention.negated /\ c1 < 90 THEN 90 ELSE c1
    IN  c2 + (IF mention.name \in clear_symptoms THEN 5 ELSE 0)

\* C14 (symptom confidence): every symptom mention has the confidence
\* min(1.0, c) where c is 0.75, + 0.15 with a severity, + 0.05 with a time
\* hint, raised to at least 0.90 when negated, + 0.05 if its normalized name
\* is one of cramps, migraine, headache, nausea, bloating, pain, fever,
\* dizziness; 'bloating' gets the 0.05 whether the text said 'bloating' or
\* 'bloated'.
C14_SymptomConfidence ==
    (call.done /\ call.op = "symptom_parse" /\ ~call.out.raised)
        => \A i \in 1..Len(call.out.ret) :
              call.out.ret[i].confidence =
                  MinOf({ 100, SymptomScoreOf(call.out.ret[i]) })

\* a negation marker stands as a whole word of the text inside the at-most-30
\* characters before offset start
MarkerWordBefore(text, start) ==
    \E i \in 1..Len(NEGATION_WORDS) :
        \E pos \in (IF start > 30 THEN start - 30 ELSE 0)..start :
            /\ pos + Len(NEGATION_WORDS[i]) <= start
            /\ MatchesIgnoreCase(text, pos, NEGATION_WORDS[i])
            /\ Boundary(text, pos)
            /\ Boundary(text, pos + Len(NEGATION_WORDS[i]))

\* C15 (negation detection): a symptom mention is negated exactly when one of
\* the markers no, not, without, zero, never, none, nahi, nahin occurs, in any
\* letter case, as a whole word of the entry text inside the at-most-30
\* characters before the match; a marker that is part of a longer word, also
\* of a word the left edge of the window cuts, one further away and one after
\* the match do not negate.
C15_NegationDetection ==
    (call.done /\ call.op = "symptom_parse" /\ ~call.out.raised /\ call.arg.t = "str")
        => /\ Len(call.out.ret) = Len(SymptomFinditer(symptom_pattern, call.arg.s, 0))
           /\ \A i \in 1..Len(call.out.ret) :
                call.out.ret[i].negated
                    <=> MarkerWordBefore(call.arg.s,
                                         SymptomFinditer(symptom_pattern, call.arg.s, 0)[i].start)

\* a word of time pattern j stands in the text as a whole word, spelled as the
\* pattern spells it
TimeKeywordOccurs(j, text) ==
    \E k \in 1..Len(FoodTimePatterns[j].words) :
        \E pos \in 0..Len(text) :
            /\ MatchesExact(text, pos, FoodTimePatterns[j].words[k])
            /\ Boundary(text, pos)
            /\ Boundary(text, pos + Len(FoodTimePatterns[j].words[k]))

\* the meal the text calls for: that of a meal keyword it contains; without
\* one, that of a time-of-day keyword it contains; without one, 'unknown'
MealCalledFor(meal, text) ==
    IF \E j \in 1..Len(MEAL_KEYWORDS) : MealKeywordOccurs(j, StrLower(text))
    THEN \E j \in 1..Len(MEAL_KEYWORDS) :
            /\ MealKeywordOccurs(j, StrLower(text))
            /\ meal = MEAL_KEYWORDS[j].meal_type
    ELSE IF \E j \in 1..Len(FoodTimePatterns) : TimeKeywordOccurs(j, text)
    THEN \E j \in 1..Len(FoodTimePatterns) :
            /\ TimeKeywordOccurs(j, text)
            /\ meal = FoodTimePatterns[j].meal_type
    ELSE meal = "unknown"

\* C16 (meal context detection): outside the skip case, the meal of every
\* food mention is the meal of a meal keyword (breakfast, lunch, dinner, snack)
\* that the text contains in any letter case; if it contains none, the meal of
\* a time-of-day keyword that stands in it as a word (morning, AM, am, subah:
\* breakfast; noon, afternoon, dopahar: lunch; evening, night, raat, PM, pm:
\* dinner); otherwise 'unknown'; and all mentions of one parse call carry the
\* same meal.
C16_MealContext ==
    (/\ call.done /\ call.op = "food_parse" /\ ~call.out.raised
     /\ ~FoodParser_detect_skipped_meal(call.arg.s).found)
        => /\ \A i \in 1..Len(call.out.ret) :
                MealCalledFor(call.out.ret[i].meal, call.arg.s)
           /\ \A i, j \in 1..Len(call.out.ret) :
                call.out.ret[i].meal = call.out.ret[j].meal

\* 'eggs and toast in the morning', without a meal keyword, gave two mentions,
\* both with meal breakfast
C16_Witness ==
    /\ call.done /\ call.op = "food_parse" /\ ~call.out.raised
    /\ \A j \in 1..Len(MEAL_KEYWORDS) : ~MealKeywordOccurs(j, StrLower(call.arg.s))
    /\ TimeKeywordOccurs(1, call.arg.s)
    /\ Len(call.out.ret) = 2
    /\ call.out.ret[1].meal = "breakfast"
    /\ call.out.ret[2].meal = "breakfast"

\* the time categories in their fixed order
TimeCategories == << "morning", "afternoon", "evening", "night", "after_meal" >>

\* category c has a keyword in the text: for the first four a word of its
\* pattern standing as a whole word, for after_meal 'after' followed by white
\* space and one of eating, lunch, dinner, breakfast, meal
CategoryOccurs(c, text) ==
    IF c <= Len(TIME_HINTS)
    THEN \E k \in 1..Len(TIME_HINTS[c].words) :
            \E pos \in 0..Len(text) :
                /\ MatchesExact(text, pos, TIME_HINTS[c].words[k])
                /\ Boundary(text, pos)
                /\ Boundary(text, pos + Len(TIME_HINTS[c].words[k]))
    ELSE SearchAfterMeal(text)

\* hint is the first category, in the fixed order, with a keyword in the text,
\* or absent when no category has one
FirstCategory(hint, text) ==
    IF \E c \in 1..Len(TimeCategories) : CategoryOccurs(c, text)
    THEN \E c \in 1..Len(TimeCategories) :
            /\ CategoryOccurs(c, text)
            /\ \A b \in 1..(c - 1) : ~CategoryOccurs(b, text)
            /\ hint = TimeCategories[c]
    ELSE hint = NoTimeHint

\* C17 (time-hint extraction): the time_hint of every symptom mention is
\* computed from the whole text: it is the first category, in the order
\* morning, afternoon, evening, night, after_meal, that has a keyword anywhere
\* in the text, and absent when no category has one; all mentions of one
\* parse call carry the same time_hint.
C17_TimeHint ==
    (call.done /\ call.op = "symptom_parse" /\ ~call.out.raised)
        => /\ \A i \in 1..Len(call.out.ret) :
                FirstCategory(call.out.ret[i].time_hint, call.arg.s)
           /\ \A i, j \in 1..Len(call.out.ret) :
                call.out.ret[i].time_hint = call.out.ret[j].time_hint

\* 'night' comes before 'morning' in the text and lies nearer to both
\* symptoms: both mentions say morning
C17_Witness ==
    /\ call.done /\ call.op = "symptom_parse" /\ ~call.out.raised
    /\ CategoryOccurs(1, call.arg.s) /\ CategoryOccurs(4, call.arg.s)
    /\ Len(call.out.ret) = 2
    /\ call.out.ret[1].time_hint = "morning"
    /\ call.out.ret[2].time_hint = "morning"

\* the severity words a mention can report
ReportedSeverityWords ==
    { <<"m","i","l","d">>, <<"l","i","g","h","t">>, <<"s","l","i","g","h","t">>,
      <<"m","o","d","e","r","a","t","e">>, <<"s","e","v","e","r","e">>,
      <<"e","x","t","r","e","m","e">>, <<"i","n","t","e","n","s","e">> }

\* the numeric pattern stands in w at offset pos with n digits: digits, '/',
\* '10', white space allowed around the '/', word boundaries at both ends
SeverityNumberAt(w, pos, n) ==
    /\ n >= 1 /\ pos + n <= Len(w)
    /\ Boundary(w, pos)
    /\ \A k \in (pos + 1)..(pos + n) : IsDigit(w[k])
    /\ \E a \in (pos + n)..Len(w), b \in (pos + n)..Len(w) :
          /\ a < b
          /\ \A k \in (pos + n + 1)..a : IsSpace(w[k])
          /\ a + 1 <= Len(w) /\ w[a + 1] = "/"
          /\ \A k \in (a + 2)..b : IsSpace(w[k])
          /\ MatchesExact(w, b, <<"1","0">>)
          /\ Boundary(w, b + 2)

\* severity word i stands in w at offset pos, in any letter case, between word
\* boundaries
SeverityWordAt(w, pos, i) ==
    /\ Boundary(w, pos)
    /\ MatchesIgnoreCase(w, pos, SEVERITY_WORDS[i])
    /\ Boundary(w, pos + Len(SEVERITY_WORDS[i]))

\* a severity pattern stands in w at offset pos
SeverityAt(w, pos) ==
    \/ \E n \in 1..Len(w) : SeverityNumberAt(w, pos, n)
    \/ \E i \in 1..Len(SEVERITY_WORDS) : SeverityWordAt(w, pos, i)

\* severity is what the leftmost severity pattern of the window w says, absent
\* when w holds none
LeftmostSeverity(severity, w) ==
    IF \A pos \in 0..Len(w) : ~SeverityAt(w, pos)
    THEN severity = Absent
    ELSE \E pos \in 0..Len(w) :
            /\ SeverityAt(w, pos)
            /\ \A q \in 0..(pos - 1) : ~SeverityAt(w, q)
            /\ \/ \E n \in 1..Len(w) :
                     /\ SeverityNumberAt(w, pos, n)
                     /\ severity = Slice(w, pos, pos + n) \o <<"/","1","0">>
               \/ \E i \in 1..Len(SEVERITY_WORDS) :
                     /\ SeverityWordAt(w, pos, i)
                     /\ severity = (IF SEVERITY_WORDS[i] = W_bahut THEN W_severe
                                    ELSE SEVERITY_WORDS[i])

\* severity is digits followed by '/10', or one of the seven words
SeverityForm(severity) ==
    \/ severity \in ReportedSeverityWords
    \/ /\ Len(severity) > 3
       /\ SubSeq(severity, Len(severity) - 2, Len(severity)) = <<"/","1","0">>
       /\ \A k \in 1..(Len(severity) - 3) : IsDigit(severity[k])

\* C18 (severity extraction): the severity of a symptom mention is what the
\* leftmost severity pattern says in the window from at most 30 characters
\* before the match to at most 30 characters after it: a numeric pattern
\* gives 'N/10', a severity word gives the word in lower case, 'bahut' gives
\* 'severe'; it is absent when the window holds no pattern; a reported
\* severity is always N/10 or one of mild, light, slight, moderate, severe,
\* extreme, intense.
C18_Severity ==
    (call.done /\ call.op = "symptom_parse" /\ ~call.out.raised /\ call.arg.t = "str")
        => /\ Len(call.out.ret) = Len(SymptomFinditer(symptom_pattern, call.arg.s, 0))
           /\ \A i \in 1..Len(call.out.ret) :
                /\ LeftmostSeverity(
                       call.out.ret[i].severity,
                       Slice(call.arg.s,
                             MaxOf({ 0, SymptomFinditer(symptom_pattern, call.arg.s, 0)[i].start - 30 }),
                             MinOf({ Len(call.arg.s),
                                     SymptomFinditer(symptom_pattern, call.arg.s, 0)[i].end + 30 })))
                /\ call.out.ret[i].severity # Absent
                      => SeverityForm(call.out.ret[i].severity)

\* 'Bahut pain 7 / 10': two patterns in the window, the leftmost one is the
\* word 'Bahut', reported as severe
C18_Witness ==
    /\ call.done /\ call.op = "symptom_parse" /\ ~call.out.raised
    /\ Contains(StrLower(call.arg.s), W_bahut)
    /\ Contains(call.arg.s, <<"7"," ","/"," ","1","0">>)
    /\ Len(call.out.ret) = 1
    /\ call.out.ret[1].severity = W_severe

\* the text a finished call of run or of a parser worked on
TextOf(c) == IF c.op = "run" THEN EntryText(c.arg) ELSE c.arg

\* the names of a sequence of mentions
NamesOf(mentions) == [ i \in 1..Len(mentions) |-> mentions[i].name ]

\* the longest term of a non-empty set of terms
LongestOf(terms) == CHOOSE t \in terms : \A u \in terms : Len(u) <= Len(t)

\* the symptom terms that match as whole words at offset pos, and the food
\* terms that do so, alone or with the plural s
SymptomTermsAt(text, pos) ==
    { t \in SYMPTOM_LEXICON :
        /\ Boundary(text, pos)
        /\ MatchesIgnoreCase(text, pos, t)
        /\ Boundary(text, pos + Len(t)) }

FoodTermsAt(text, pos) ==
    { t \in FOOD_LEXICON :
        /\ Boundary(text, pos)
        /\ MatchesIgnoreCase(text, pos, t)
        /\ \/ Boundary(text, pos + Len(t))
           \/ /\ pos + Len(t) < Len(text)
              /\ Lower(text[pos + Len(t) + 1]) = "s"
              /\ Boundary(text, pos + Len(t) + 1) }

\* reading the text from offset pos on: where terms match, the longest one is
\* reported and reading goes on behind it
RECURSIVE SymptomLongestNames(_, _)
SymptomLongestNames(text, pos) ==
    IF pos >= Len(text) THEN <<>>
    ELSE IF SymptomTermsAt(text, pos) = {} THEN SymptomLongestNames(text, pos + 1)
    ELSE << SymptomParser_normalize_symptom_name(LongestOf(SymptomTermsAt(text, pos))) >>
            \o SymptomLongestNames(text, pos + Len(LongestOf(SymptomTermsAt(text, pos))))

RECURSIVE FoodLongestNames(_, _)
FoodLongestNames(text, pos) ==
    IF pos >= Len(text) THEN <<>>
    ELSE IF FoodTermsAt(text, pos) = {} THEN FoodLongestNames(text, pos + 1)
    ELSE << FoodParser_normalize_food_name(LongestOf(FoodTermsAt(text, pos))) >>
            \o FoodLongestNames(text, pos + Len(LongestOf(FoodTermsAt(text, pos))))

\* C19 (longest-match priority): where several lexicon terms match as whole
\* words from the same position of the text ('sore throat' and 'sore', 'hot
\* flashes' and 'hot flash', 'eggs' and 'egg'), the mention reported is that
\* of the longest of them, and the words inside a matched multi-word term
\* ('shake' in 'protein shake', 'pain' in 'stomach pain') give no mention of
\* their own: the names reported are those found by reading the text from
\* left to right, taking the longest term at each place and going on behind
\* it.
C19_LongestMatch ==
    (call.done /\ ~call.out.raised /\ call.op \in { "run", "food_parse", "symptom_parse" }
     /\ TextOf(call).t = "str")
        => /\ (/\ call.op \in { "run", "symptom_parse" }
               /\ call.op = "run" => call.faults.symptom = NoFault)
                 => NamesOf(SymptomsOf(call)) = SymptomLongestNames(TextOf(call).s, 0)
           /\ (/\ call.op \in { "run", "food_parse" }
               /\ call.op = "run" => call.faults.food = NoFault
               /\ ~FoodParser_detect_skipped_meal(TextOf(call).s).found)
                 => NamesOf(FoodsOf(call)) = FoodLongestNames(TextOf(call).s, 0)

\* an entry with 'sore throat', 'hot flashes', 'protein shake', 'eggs' and
\* 'stomach pain' gave the symptoms sore throat, hot flashes, stomach pain and
\* the foods protein shake, egg
C19_Witness ==
    /\ call.done /\ call.op = "run" /\ ~call.out.raised
    /\ NamesOf(call.out.ret.symptoms) =
          << <<"s","o","r","e"," ","t","h","r","o","a","t">>,
             <<"h","o","t"," ","f","l","a","s","h","e","s">>,
             <<"s","t","o","m","a","c","h"," ","p","a","i","n">> >>
    /\ NamesOf(call.out.ret.foods) =
          << <<"p","r","o","t","e","i","n"," ","s","h","a","k","e">>, <<"e","g","g">> >>

\* the positions of the text from which a lexicon term matches as a whole word
SymptomTermStarts(text) == { p \in 0..Len(text) : SymptomTermsAt(text, p) # {} }

FoodTermStarts(text) == { p \in 0..Len(text) : FoodTermsAt(text, p) # {} }

\* the starts of the matches kept when the text is read from offset pos on and
\* a start inside the span of the match before is passed over
RECURSIVE SymptomKeptStarts(_, _)
SymptomKeptStarts(text, pos) ==
    IF pos >= Len(text) THEN <<>>
    ELSE IF SymptomTermsAt(text, pos) = {} THEN SymptomKeptStarts(text, pos + 1)
    ELSE <<pos>> \o SymptomKeptStarts(text, pos + Len(LongestOf(SymptomTermsAt(text, pos))))

RECURSIVE FoodKeptStarts(_, _)
FoodKeptStarts(text, pos) ==
    IF pos >= Len(text) THEN <<>>
    ELSE IF FoodTermsAt(text, pos) = {} THEN FoodKeptStarts(text, pos + 1)
    ELSE <<pos>> \o FoodKeptStarts(text, pos + Len(LongestOf(FoodTermsAt(text, pos))))

\* the calls whose symptom mentions, and whose food mentions, come from the
\* lexicon matching of the text
SymptomsMatched(c) ==
    /\ c.done /\ ~c.out.raised /\ c.op \in { "run", "symptom_parse" }
    /\ TextOf(c).t = "str"
    /\ c.op = "run" => c.faults.symptom = NoFault

FoodsMatched(c) ==
    /\ c.done /\ ~c.out.raised /\ c.op \in { "run", "food_parse" }
    /\ TextOf(c).t = "str"
    /\ c.op = "run" => c.faults.food = NoFault
    /\ ~FoodParser_detect_skipped_meal(TextOf(c).s).found

\* C20 (overlap handling), as stated: there is one mention for every position
\* of the text from which a lexicon term matches as a whole word: never two
\* for one position, and none is dropped because its span overlaps that of
\* another match.
C20_OverlapsAllKept ==
    /\ SymptomsMatched(call)
          => Len(SymptomsOf(call)) = Cardinality(SymptomTermStarts(TextOf(call).s))
    /\ FoodsMatched(call)
          => Len(FoodsOf(call)) = Cardinality(FoodTermStarts(TextOf(call).s))

\* mention i is that of a term matching from starts[i]
MentionPerStart(mentions, starts, text, food) ==
    /\ Len(mentions) = Len(starts)
    /\ \A i \in 1..Len(mentions) :
          IF food
          THEN \E t \in FoodTermsAt(text, starts[i]) :
                  mentions[i].name = FoodParser_normalize_food_name(t)
          ELSE \E t \in SymptomTermsAt(text, starts[i]) :
                  mentions[i].name = SymptomParser_normalize_symptom_name(t)

\* C20 (overlap handling), amended: the matches never overlap. There is
\* exactly one mention for every match found reading the text from left to
\* right, in that order, and a term that begins inside the span of the match
\* before it gives no mention.
C20_OneMentionPerMatch ==
    /\ SymptomsMatched(call)
          => MentionPerStart(SymptomsOf(call), SymptomKeptStarts(TextOf(call).s, 0),
                             TextOf(call).s, FALSE)
    /\ FoodsMatched(call)
          => MentionPerStart(FoodsOf(call), FoodKeptStarts(TextOf(call).s, 0),
                             TextOf(call).s, TRUE)

\* an entry in which a symptom term begins inside the span of another one
\* ('pain' in 'stomach pain') and a food term inside another ('shake' in
\* 'protein shake'): fewer mentions than positions with a term
C20_Witness ==
    /\ SymptomsMatched(call) /\ FoodsMatched(call) /\ call.op = "run"
    /\ \E p, q \in SymptomTermStarts(TextOf(call).s) :
          p < q /\ q < p + Len(LongestOf(SymptomTermsAt(TextOf(call).s, p)))
    /\ \E p, q \in FoodTermStarts(TextOf(call).s) :
          p < q /\ q < p + Len(LongestOf(FoodTermsAt(TextOf(call).s, p)))
    /\ Len(call.out.ret.symptoms) < Cardinality(SymptomTermStarts(TextOf(call).s))
    /\ Len(call.out.ret.foods) < Cardinality(FoodTermStarts(TextOf(call).s))

\* the starts of the matches increase strictly along the sequence
StartsIncrease(matches) ==
    \A i, j \in 1..Len(matches) : i < j => matches[i].start < matches[j].start

\* mention i is the one built from match i
FoodsInMatchOrder(mentions, matches, text) ==
    /\ Len(mentions) = Len(matches)
    /\ StartsIncrease(matches)
    /\ \A i \in 1..Len(mentions) :
          mentions[i] = FoodItem(text, matches[i], FoodParser_detect_meal_context(text))

SymptomsInMatchOrder(mentions, matches, text) ==
    /\ Len(mentions) = Len(matches)
    /\ StartsIncrease(matches)
    /\ \A i \in 1..Len(mentions) : mentions[i] = SymptomItem(text, matches[i])

\* C21 (ordering): in every result the foods and the symptoms stand in the
\* order of the matches that triggered them, the start positions of these
\* matches increasing strictly from one mention to the next.
C21_Ordering ==
    /\ SymptomsMatched(call)
          => SymptomsInMatchOrder(SymptomsOf(call),
                                  SymptomFinditer(symptom_pattern, TextOf(call).s, 0),
                                  TextOf(call).s)
    /\ FoodsMatched(call)
          => FoodsInMatchOrder(FoodsOf(call),
                               FoodFinditer(food_pattern, TextOf(call).s, 0),
                               TextOf(call).s)

\* a result of run with at least two foods and three symptoms, the first and
\* the last of each with different names
C21_Witness ==
    /\ call.done /\ call.op = "run" /\ ~call.out.raised
    /\ Len(call.out.ret.foods) >= 2 /\ Len(call.out.ret.symptoms) >= 3
    /\ call.out.ret.foods[1].name # call.out.ret.foods[Len(call.out.ret.foods)].name
    /\ call.out.ret.symptoms[1].name # call.out.ret.symptoms[Len(call.out.ret.symptoms)].name

\* C22 (empty text does not stop processing): when the entry's text is empty,
\* run appends the empty_text error and still invokes both extractors, so an
\* extractor that fails is reported as food_parser_error or
\* symptom_parser_error next to empty_text.
C22_EmptyTextStillInvokes ==
    (/\ call.done /\ call.op = "run" /\ call.arg.kind = "dict"
     /\ ~Truthy(EntryText(call.arg)))
        => /\ ~call.out.raised
           /\ \E i \in 1..Len(call.out.ret.parse_errors) :
                 call.out.ret.parse_errors[i] = ParseError("empty_text", "Entry text is empty")
           /\ call.faults.food # NoFault
                 => \E i \in 1..Len(call.out.ret.parse_errors) :
                       call.out.ret.parse_errors[i] =
                           ParseError("food_parser_error", call.faults.food)
           /\ call.faults.symptom # NoFault
                 => \E i \in 1..Len(call.out.ret.parse_errors) :
                       call.out.ret.parse_errors[i] =
                           ParseError("symptom_parser_error", call.faults.symptom)

\* a time-of-day word of TIME_HINTS stands in the text as a whole word in some
\* letter case
TimeWordAnyCase(text) ==
    \E c \in 1..Len(TIME_HINTS) : \E k \in 1..Len(TIME_HINTS[c].words) :
        \E pos \in 0..Len(text) :
            /\ MatchesIgnoreCase(text, pos, TIME_HINTS[c].words[k])
            /\ Boundary(text, pos)
            /\ Boundary(text, pos + Len(TIME_HINTS[c].words[k]))

\* the text holds a time keyword in the spelling of the pattern tables: for
\* the symptom parser, for the food parser
SymptomTimeSpelled(text) == \E c \in 1..Len(TimeCategories) : CategoryOccurs(c, text)

FoodTimeSpelled(text) == \E j \in 1..Len(FoodTimePatterns) : TimeKeywordOccurs(j, text)

\* C23 (letter case of time keywords): the time-of-day keywords are
\* recognised only in the spelling of the pattern tables (lower-case words,
\* AM/am, PM/pm), in the original text: a symptom mention has a time_hint
\* exactly when the text holds a keyword so spelled, and without a meal
\* keyword a food mention has a meal other than 'unknown' exactly when the
\* text holds one so spelled, so 'Morning', 'Night' or 'Raat' give neither;
\* a meal keyword gives the meal in any letter case, as lexicon terms match in
\* any letter case.
C23_TimeKeywordCase ==
    /\ SymptomsMatched(call)
          => \A i \in 1..Len(SymptomsOf(call)) :
                SymptomsOf(call)[i].time_hint # NoTimeHint
                    <=> SymptomTimeSpelled(TextOf(call).s)
    /\ FoodsMatched(call)
          => \A i \in 1..Len(FoodsOf(call)) :
                IF \E j \in 1..Len(MEAL_KEYWORDS) :
                       MealKeywordOccurs(j, StrLower(TextOf(call).s))
                THEN FoodsOf(call)[i].meal # "unknown"
                ELSE FoodsOf(call)[i].meal # "unknown" <=> FoodTimeSpelled(TextOf(call).s)

\* an entry with a time word in another letter case than the tables spell it,
\* and none as spelled: a food mention with meal unknown and a symptom mention
\* without time_hint came back, both matched from capitalised lexicon terms
C23_Witness ==
    /\ call.done /\ call.op = "run" /\ ~call.out.raised
    /\ TextOf(call).t = "str"
    /\ TimeWordAnyCase(TextOf(call).s)
    /\ ~SymptomTimeSpelled(TextOf(call).s) /\ ~FoodTimeSpelled(TextOf(call).s)
    /\ Contains(TextOf(call).s, <<"R","i","c","e">>)
    /\ Contains(TextOf(call).s, <<"H","e","a","d","a","c","h","e">>)
    /\ Len(call.out.ret.foods) = 1 /\ call.out.ret.foods[1].meal = "unknown"
    /\ Len(call.out.ret.symptoms) = 1 /\ call.out.ret.symptoms[1].time_hint = NoTimeHint

\* what the call of c returns on a pipeline constructed under hash seed `seed`
OutUnderSeed(c, seed) ==
    IF c.op = "food_parse"
    THEN FoodParser_parse(FoodParser_build_food_patterns(FoodIter(seed)), c.arg)
    ELSE IF c.op = "symptom_parse"
    THEN SymptomParser_parse(SymptomParser_build_symptom_patterns(SymptomIter(seed)), c.arg)
    ELSE LightParsePipeline_run(FoodParser_build_food_patterns(FoodIter(seed)),
                                SymptomParser_build_symptom_patterns(SymptomIter(seed)),
                                c.arg, c.faults)

\* C24 (independence of the order of equal-length terms): what
\* FoodParser.parse, SymptomParser.parse and run return for a text does not
\* depend on the order in which the lexicon set was iterated when the pattern
\* was compiled: under every order of the equal-length terms in the
\* length-descending alternation the mention sequences are the same.
C24_OrderIndependence ==
    (call.done /\ call.op \in { "run", "food_parse", "symptom_parse" })
        => \A seed \in HashSeeds : call.out = OutUnderSeed(call, seed)

\* a result with foods and symptoms from a pipeline whose two alternations
\* are ordered otherwise, among terms of equal length, than those of a
\* pipeline constructed under another seed
C24_Witness ==
    /\ call.done /\ call.op = "run" /\ ~call.out.raised
    /\ \E seed \in HashSeeds :
          /\ FoodParser_build_food_patterns(FoodIter(seed)) # food_pattern
          /\ SymptomParser_build_symptom_patterns(SymptomIter(seed)) # symptom_pattern
          /\ Len(FoodParser_build_food_patterns(FoodIter(seed))) = Len(food_pattern)
          /\ \A i \in 1..Len(food_pattern) :
                Len(FoodParser_build_food_patterns(FoodIter(seed))[i]) = Len(food_pattern[i])
    /\ Len(call.out.ret.foods) >= 2
    /\ Len(call.out.ret.symptoms) >= 2

====
